---- MODULE Spec2Model ----
(***************************************************************************)
(* A model of gdharper/kvstore: the skip-list memtable (inc/memtable.h),   *)
(* the write-ahead log (inc/wal.h) and the store coordinator               *)
(* (inc/kvstore.h).                                                        *)
(*                                                                         *)
(* Strings (keys, values, file contents) are sequences of one-character    *)
(* strings.  size_t counters are kept as integers; a negative integer      *)
(* stands for the value wrapped modulo 2^64 (a number above every limit).  *)
(***************************************************************************)
EXTENDS Integers, Sequences, FiniteSets, TLC

(***************************************************************************)
(* Configuration, scaled down.                                             *)
(***************************************************************************)
\* skiptable::config_opts::writes_before_lock
writes_before_lock == 3
\* skiptable::config_opts::data_limit
data_limit == 2
\* skiptable::config_opts::total_data_limit
total_data_limit == 5
\* the longest key and the longest value that are put
MaxKeyLen == 2
MaxValLen == 2
\* the number of records logged to one WAL file in the round trip
MaxWalRecs == 2

Chars == {"a", "b"}
NL == "\n"

SeqsUpTo(S, n) == UNION {[1..m -> S] : m \in 0..n}
Keys == SeqsUpTo(Chars, MaxKeyLen)
Values == SeqsUpTo(Chars, MaxValLen)

Last(s) == s[Len(s)]
Front(s) == SubSeq(s, 1, Len(s) - 1)

RECURSIVE Reverse(_)
Reverse(s) == IF s = <<>> THEN <<>> ELSE Append(Reverse(Tail(s)), Head(s))

(***************************************************************************)
(* The memtable as one value: the written record slots, the linked nodes   *)
(* (key -> record_idx) and the counters.  Slot i of the code is            *)
(* records[i+1].                                                           *)
(***************************************************************************)
NullRecord == [data |-> <<>>, size |-> 0]

skiptable ==
    [records |-> <<>>, node |-> <<>>, next_record |-> 0,
     data_size |-> 0, total_data_size |-> 0, is_locked |-> FALSE]

\* an unsigned comparison x >= lim of a size_t that may have wrapped
UGE(x, lim) == x < 0 \/ x >= lim

locked(t) ==
    \/ UGE(t.total_data_size, total_data_limit)
    \/ t.next_record >= writes_before_lock
    \/ UGE(t.data_size, data_limit)
    \/ t.is_locked

empty(t) == t.data_size = 0

lock(t) == [t EXCEPT !.is_locked = TRUE]

\* skiptable::find: the record index of the node, -1 for nullptr
find(t, key) == IF key \in DOMAIN t.node THEN t.node[key] ELSE -1

\* the result of skiptable::get(key) when it is nullptr
NoRecord == [ok |-> FALSE, data |-> <<>>, size |-> 0]

\* skiptable::get(key): find, then the record of the node
tableGet(t, key) ==
    LET idx == find(t, key)
    IN  IF idx < 0 \/ idx >= t.next_record THEN NoRecord
        ELSE [ok |-> TRUE, data |-> t.records[idx + 1].data, size |-> t.records[idx + 1].size]

\* malloc(size) fails for a size that wrapped (size_t(-1)); malloc(0) gives a block
mallocFails(size) == size < 0

\* skiptable::insert, run without interference from another thread:
\* whether it returns a node
insertOk(t, size) == ~locked(t) /\ ~mallocFails(size)

\* skiptable::insert after the locked() test, run without interference
insertBody(t, key, data, size) ==
    LET r == t.next_record IN
    IF mallocFails(size)
    THEN [t EXCEPT !.next_record = r + 1, !.records = Append(@, NullRecord)]
    ELSE LET rec == [data |-> SubSeq(data, 1, size), size |-> size]
             t1  == [t EXCEPT !.next_record = r + 1,
                              !.records = Append(@, rec),
                              !.total_data_size = @ + size]
         IN  IF key \in DOMAIN t.node
             THEN [t1 EXCEPT !.node[key] = r,
                             !.data_size = (@ - t.records[t.node[key] + 1].size) + size]
             ELSE [t1 EXCEPT !.node = (key :> r) @@ @,
                             !.data_size = @ + size]

\* skiptable::insert, run without interference: the table it leaves
insert(t, key, data, size) == IF locked(t) THEN t ELSE insertBody(t, key, data, size)

(***************************************************************************)
(* The WAL file format: what the drain loop of walfile::log appends for    *)
(* one node, and what walfile::load reads back.                            *)
(***************************************************************************)
logBytes(key, value) == key \o <<NL>> \o value

\* the lines std::getline yields: the text between newlines, the last one
\* being the text after the last newline (reading it sets eofbit)
RECURSIVE getlines(_, _)
getlines(bytes, cur) ==
    IF bytes = <<>> THEN <<cur>>
    ELSE IF Head(bytes) = NL THEN <<cur>> \o getlines(Tail(bytes), <<>>)
    ELSE getlines(Tail(bytes), Append(cur, Head(bytes)))

\* the read loop of walfile::load: pairs of lines; a key read as the last line
\* leaves the stream at eof, so its value is read as the empty string
loadPairs(bytes) ==
    LET L == getlines(bytes, <<>>)
        m == Len(L)
    IN  [j \in 1..((m + 1) \div 2) |->
            [first |-> L[2 * j - 1],
             second |-> IF 2 * j <= m THEN L[2 * j] ELSE <<>>]]

\* assert(file.good()) after reading a key fails when the key was the last line
loadAssertFails(bytes) == Len(getlines(bytes, <<>>)) % 2 = 1

\* key.substr(0, key.size() - 1): size() - 1 wraps to npos for the empty key
dropLast(s) == IF s = <<>> THEN <<>> ELSE Front(s)

\* the insert loop of walfile::load over the reversed pairs.  The result is
\* the table and whether assert(!table.locked()) failed on the way.
RECURSIVE loadInsert(_, _, _, _)
loadInsert(kvs, inserted, t, lockedSeen) ==
    IF kvs = <<>> THEN [table |-> t, assertLocked |-> lockedSeen]
    ELSE LET kv == Head(kvs) IN
         IF kv.first \in inserted
         THEN loadInsert(Tail(kvs), inserted, t, lockedSeen)
         ELSE loadInsert(Tail(kvs), inserted \cup {kv.first},
                         insert(t, dropLast(kv.first), kv.second, Len(kv.second) - 1),
                         lockedSeen \/ locked(t))

\* walfile::load of a file into a table, in a build with NDEBUG (asserts off)
load(bytes, t) == loadInsert(Reverse(loadPairs(bytes)), {}, t, FALSE).table

\* whether a build with asserts on aborts in walfile::load
loadAborts(bytes, t) ==
    \/ loadAssertFails(bytes)
    \/ loadInsert(Reverse(loadPairs(bytes)), {}, t, FALSE).assertLocked

(***************************************************************************)
(* State.                                                                  *)
(***************************************************************************)
VARIABLES
    ndebug,     \* the build: TRUE when asserts are compiled out (NDEBUG)
    \* WAL round trip
    rtFile,     \* the bytes of the WAL file
    rtLogged,   \* the (key, value) records handed to walfile::log, in order
    rtTable,    \* the memtable walfile::load filled
    rtPc,       \* "off" | "log" | "loaded" | "aborted"
    \* one skiptable under concurrent insert
    next,           \* node::next: node -> level -> node
    nodeKey,        \* node::key
    record_idx,     \* node::record_idx
    records,        \* skiptable::records: slot -> record
    next_record,    \* skiptable::next_record
    data_size,      \* skiptable::data_size
    total_data_size,\* skiptable::total_data_size
    is_locked,      \* skiptable::is_locked
    ins,            \* per thread: the locals of skiptable::insert and its position
    calls,          \* the number of insert calls begun
    returned,       \* the inserts that have returned: <<thread, key, r, node>>
    \* one walfile under concurrent log
    q_shared,       \* walfile::q_mutex: the number of shared holds
    q_excl,         \* walfile::q_mutex: held exclusively
    write,          \* walfile::write
    read,           \* walfile::read
    putq,           \* walfile::putq: slot -> node or NoNode
    logfile,        \* the nodes written to the log file, in order
    lg,             \* per thread: the locals of walfile::log and its position
    logCalls,       \* the number of log calls begun (a call's node is its number)
    logReturned,    \* the nodes whose log call has returned
    \* the store
    store,          \* the kvstore object and the objects it owns
    disk,           \* the WAL directory and the SSTable directory
    th,             \* per thread: the locals of the running operation and its position
    gh,             \* the calls made and what they returned
    \* one SSTable file
    sstIn,          \* the memtable and the block size given to sstable::build
    sstOut,         \* the file that build wrote
    sstRes,         \* the outcome of the last sstable::get
    \* one Bloom filter
    bloomEnv,       \* which filter it is, how abs resolves, the hash function
    filters,        \* the static filter, or the sub-filters of the scalable one
    bloomGh,        \* the elements inserted, the last result, a fault
    \* the level generator of one insert
    lvl,            \* level, the last draw rn, the position in the loop
    \* save_memtable, one access of this->mtable per step
    sw              \* the pointer mtable, the memtables made, the history, the threads

rtVars == <<rtFile, rtLogged, rtTable, rtPc>>
memVars == <<next, nodeKey, record_idx, records, next_record, data_size,
             total_data_size, is_locked, ins, calls, returned>>
logVars == <<q_shared, q_excl, write, read, putq, logfile, lg, logCalls, logReturned>>
stVars == <<store, disk, th, gh>>
\* the variables of the SSTable file and of the Bloom filters taken on their own
fileVars == <<sstIn, sstOut, sstRes, bloomEnv, filters, bloomGh, lvl, sw>>
vars == <<ndebug, rtVars, memVars, logVars, stVars, fileVars>>

(***************************************************************************)
(* WAL round trip: records are logged one after the other by one thread,   *)
(* then the file is loaded into a fresh memtable.                          *)
(***************************************************************************)
RtOff ==
    /\ rtFile = <<>>
    /\ rtLogged = <<>>
    /\ rtTable = skiptable
    /\ rtPc = "off"

RtInit ==
    /\ rtFile = <<>>
    /\ rtLogged = <<>>
    /\ rtTable = skiptable
    /\ rtPc = "log"

\* walfile::log by a single thread: the node is queued and drained at once
RtLog(key, value) ==
    /\ rtPc = "log"
    /\ Len(rtLogged) < MaxWalRecs
    /\ rtFile' = rtFile \o logBytes(key, value)
    /\ rtLogged' = Append(rtLogged, <<key, value>>)
    /\ UNCHANGED <<ndebug, rtTable, rtPc, memVars, logVars, stVars, fileVars>>

\* walfile::load of the file into a fresh table
RtLoad ==
    /\ rtPc = "log"
    /\ rtLogged # <<>>
    /\ IF ~ndebug /\ loadAborts(rtFile, skiptable)
       THEN rtPc' = "aborted" /\ UNCHANGED rtTable
       ELSE rtPc' = "loaded" /\ rtTable' = load(rtFile, skiptable)
    /\ UNCHANGED <<ndebug, rtFile, rtLogged, memVars, logVars, stVars, fileVars>>

(***************************************************************************)
(* skiptable::insert, one shared-memory access per step.  Nodes are named  *)
(* by the record index their insert reserved; HeadNode is the sentinel.    *)
(***************************************************************************)
MemThreads == {"t1", "t2"}
\* inserts issued to the table, by all threads together
MaxInserts == 3
\* the longest run of odd draws of the level generator
MaxOdds == 1
MAX_TABLE_LEVELS == 16

HeadNode == -1
NullNode == -2
Slots == 0..(MaxInserts - 1)
Nodes == {HeadNode} \cup Slots
Levels == 0..MaxOdds
MemKeys == {<<"a">>, <<"b">>}
MemValues == {<<"a">>, <<"b">>}

\* the level loop: one more level per odd draw, up to MAX_TABLE_LEVELS
levelFrom(odds) == IF odds < MAX_TABLE_LEVELS THEN odds ELSE MAX_TABLE_LEVELS

\* the value of a byte
ord(c) == CASE c = "a" -> 97 [] c = "b" -> 98 [] c = "c" -> 99 [] OTHER -> 10

\* std::string::compare: -1, 0, 1 by lexicographic byte order
RECURSIVE compare(_, _)
compare(x, y) ==
    IF x = <<>> THEN (IF y = <<>> THEN 0 ELSE -1)
    ELSE IF y = <<>> THEN 1
    ELSE IF Head(x) = Head(y) THEN compare(Tail(x), Tail(y))
    ELSE IF ord(Head(x)) < ord(Head(y)) THEN -1 ELSE 1

InsIdle == [pc |-> "idle", key |-> <<>>, data |-> <<>>, size |-> 0, r |-> -1,
            level |-> 0, i |-> 0, n |-> HeadNode, n2 |-> NullNode,
            updates |-> [l \in Levels |-> NullNode],
            update_nexts |-> [l \in Levels |-> NullNode],
            old |-> -1]

MemOff ==
    /\ next = [n \in Nodes |-> [l \in Levels |-> NullNode]]
    /\ nodeKey = [n \in Nodes |-> <<>>]
    /\ record_idx = [n \in Nodes |-> -1]
    /\ records = [s \in Slots |-> NullRecord]
    /\ next_record = 0
    /\ data_size = 0
    /\ total_data_size = 0
    /\ is_locked = FALSE
    /\ ins = [t \in MemThreads |-> InsIdle]
    /\ calls = 0
    /\ returned = {}

\* skiptable::locked on the live counters
memLocked ==
    \/ UGE(total_data_size, total_data_limit)
    \/ next_record >= writes_before_lock
    \/ UGE(data_size, data_limit)
    \/ is_locked

MemRunning == \A t \in MemThreads : ins[t].pc # "aborted"

\* a call of insert(key, data, size) begins
InsCall(t, key, data) ==
    /\ MemRunning
    /\ ins[t].pc = "idle"
    /\ calls < MaxInserts
    /\ calls' = calls + 1
    /\ ins' = [ins EXCEPT ![t] = [InsIdle EXCEPT !.pc = "locked", !.key = key,
                                   !.data = data, !.size = Len(data)]]
    /\ UNCHANGED <<ndebug, rtVars, logVars, stVars, fileVars, next, nodeKey, record_idx, records, next_record,
                   data_size, total_data_size, is_locked, returned>>

\* if (this->locked()) return nullptr
InsLocked(t) ==
    /\ MemRunning
    /\ ins[t].pc = "locked"
    /\ IF memLocked
       THEN /\ ins' = [ins EXCEPT ![t] = InsIdle]
            /\ returned' = returned \cup {<<t, ins[t].key, -1, NullNode>>}
       ELSE /\ ins' = [ins EXCEPT ![t].pc = "reserve"]
            /\ UNCHANGED returned
    /\ UNCHANGED <<ndebug, rtVars, logVars, stVars, fileVars, calls, next, nodeKey, record_idx, records, next_record,
                   data_size, total_data_size, is_locked>>

\* new_record_idx = next_record.fetch_add(1); records[new_record_idx] = copy of data.
\* An index at or above writes_before_lock is outside the records vector.
InsReserve(t) ==
    /\ MemRunning
    /\ ins[t].pc = "reserve"
    /\ next_record' = next_record + 1
    /\ IF next_record >= writes_before_lock
       THEN /\ ins' = [ins EXCEPT ![t].pc = "oob", ![t].r = next_record]
            /\ UNCHANGED records
       ELSE /\ ins' = [ins EXCEPT ![t].pc = "total", ![t].r = next_record]
            /\ records' = [records EXCEPT ![next_record] =
                              [data |-> ins[t].data, size |-> ins[t].size]]
    /\ UNCHANGED <<ndebug, rtVars, logVars, stVars, fileVars, calls, next, nodeKey, record_idx, data_size,
                   total_data_size, is_locked, returned>>

\* total_data_size += size; the level is drawn; new node(this, key, new_record_idx)
InsTotal(t, odds) ==
    /\ MemRunning
    /\ ins[t].pc = "total"
    /\ total_data_size' = total_data_size + ins[t].size
    /\ nodeKey' = [nodeKey EXCEPT ![ins[t].r] = ins[t].key]
    /\ record_idx' = [record_idx EXCEPT ![ins[t].r] = ins[t].r]
    /\ ins' = [ins EXCEPT ![t].pc = "iter", ![t].level = levelFrom(odds),
                          ![t].i = levelFrom(odds), ![t].n = HeadNode]
    /\ UNCHANGED <<ndebug, rtVars, logVars, stVars, fileVars, calls, next, records, next_record, data_size,
                   is_locked, returned>>

\* a search loop that takes every key it meets for a larger one
InsIterFirst(t) ==
    /\ MemRunning
    /\ ins[t].pc = "iter"
    /\ LET s == ins[t]
           n2 == next[s.n][s.i]
       IN  ins' = [ins EXCEPT ![t] =
                     [s EXCEPT !.updates[s.i] = s.n, !.update_nexts[s.i] = n2,
                               !.n2 = n2,
                               !.i = IF s.i = 0 THEN s.level ELSE s.i - 1,
                               !.pc = IF s.i = 0 THEN "link" ELSE "iter"]]
    /\ UNCHANGED <<ndebug, rtVars, logVars, stVars, fileVars, calls, next, nodeKey, record_idx, records, next_record,
                   data_size, total_data_size, is_locked, returned>>

\* delete new_node has run on the node: its insert returned another node
deleted(n) == n \in Slots /\ \E x \in returned : x[3] = n /\ x[4] # n

\* n2 = n->iterate(i) and the key comparison of the search loop.  The key of a
\* node that was deleted while linked is freed memory: the comparison may give
\* any result.
InsIter(t) ==
    /\ MemRunning
    /\ ins[t].pc = "iter"
    /\ LET s == ins[t]
           n2 == next[s.n][s.i]
       IN  \E comp \in (IF n2 = NullNode THEN {-1}
                        ELSE IF deleted(n2) THEN {-1, 0, 1}
                        ELSE {compare(s.key, nodeKey[n2])}) :
           ins' = [ins EXCEPT ![t] =
             IF comp < 0
             THEN [s EXCEPT !.updates[s.i] = s.n, !.update_nexts[s.i] = n2,
                            !.n2 = n2,
                            !.i = IF s.i = 0 THEN s.level ELSE s.i - 1,
                            !.pc = IF s.i = 0 THEN "link" ELSE "iter"]
             ELSE IF comp = 0 THEN [s EXCEPT !.n2 = n2, !.pc = "newer"]
             ELSE [s EXCEPT !.n2 = n2, !.n = n2]]
    /\ UNCHANGED <<ndebug, rtVars, logVars, stVars, fileVars, calls, next, nodeKey, record_idx, records, next_record,
                   data_size, total_data_size, is_locked, returned>>

\* comp == 0 && n2->newer(new_record_idx): delete new_node; return n2
InsNewer(t) ==
    /\ MemRunning
    /\ ins[t].pc = "newer"
    /\ IF record_idx[ins[t].n2] > ins[t].r
       THEN /\ ins' = [ins EXCEPT ![t] = InsIdle]
            /\ returned' = returned \cup {<<t, ins[t].key, ins[t].r, ins[t].n2>>}
       ELSE /\ ins' = [ins EXCEPT ![t].pc = "older"]
            /\ UNCHANGED returned
    /\ UNCHANGED <<ndebug, rtVars, logVars, stVars, fileVars, calls, next, nodeKey, record_idx, records, next_record,
                   data_size, total_data_size, is_locked>>

\* comp == 0 && n2->older(new_record_idx); otherwise the assert(false) branch,
\* which aborts, or with NDEBUG falls through to the next round of while (true)
InsOlder(t) ==
    /\ MemRunning
    /\ ins[t].pc = "older"
    /\ ins' = [ins EXCEPT ![t].pc =
                 IF record_idx[ins[t].n2] < ins[t].r THEN "update"
                 ELSE IF ndebug THEN "iter" ELSE "aborted"]
    /\ UNCHANGED <<ndebug, rtVars, logVars, stVars, fileVars, calls, next, nodeKey, record_idx, records, next_record,
                   data_size, total_data_size, is_locked, returned>>

\* old = n2->update(new_record_idx): record_idx.exchange
InsUpdate(t) ==
    /\ MemRunning
    /\ ins[t].pc = "update"
    /\ record_idx' = [record_idx EXCEPT ![ins[t].n2] = ins[t].r]
    /\ ins' = [ins EXCEPT ![t].pc = "sub", ![t].old = record_idx[ins[t].n2]]
    /\ UNCHANGED <<ndebug, rtVars, logVars, stVars, fileVars, calls, next, nodeKey, records, next_record, data_size,
                   total_data_size, is_locked, returned>>

\* data_size -= records[old].size
InsSub(t) ==
    /\ MemRunning
    /\ ins[t].pc = "sub"
    /\ data_size' = data_size - records[ins[t].old].size
    /\ ins' = [ins EXCEPT ![t].pc = "add"]
    /\ UNCHANGED <<ndebug, rtVars, logVars, stVars, fileVars, calls, next, nodeKey, record_idx, records, next_record,
                   total_data_size, is_locked, returned>>

\* data_size += size; delete new_node; return n2
InsAdd(t) ==
    /\ MemRunning
    /\ ins[t].pc = "add"
    /\ data_size' = data_size + ins[t].size
    /\ ins' = [ins EXCEPT ![t] = InsIdle]
    /\ returned' = returned \cup {<<t, ins[t].key, ins[t].r, ins[t].n2>>}
    /\ UNCHANGED <<ndebug, rtVars, logVars, stVars, fileVars, calls, next, nodeKey, record_idx, records, next_record,
                   total_data_size, is_locked>>

\* new_node->link(i, update_nexts[i])
InsLink(t) ==
    /\ MemRunning
    /\ ins[t].pc = "link"
    /\ next' = [next EXCEPT ![ins[t].r][ins[t].i] = ins[t].update_nexts[ins[t].i]]
    /\ ins' = [ins EXCEPT ![t].pc = "cas"]
    /\ UNCHANGED <<ndebug, rtVars, logVars, stVars, fileVars, calls, nodeKey, record_idx, records, next_record,
                   data_size, total_data_size, is_locked, returned>>

\* updates[i]->CE_link(i, update_nexts[i], new_node); on failure goto insert_loop
InsCas(t) ==
    /\ MemRunning
    /\ ins[t].pc = "cas"
    /\ LET s == ins[t] IN
       IF next[s.updates[s.i]][s.i] = s.update_nexts[s.i]
       THEN /\ next' = [next EXCEPT ![s.updates[s.i]][s.i] = s.r]
            /\ ins' = [ins EXCEPT ![t].i = IF s.i = 0 THEN 0 ELSE s.i - 1,
                                  ![t].pc = IF s.i = 0 THEN "fin" ELSE "link"]
       ELSE /\ UNCHANGED next
            /\ ins' = [ins EXCEPT ![t].pc = "iter", ![t].i = s.level,
                                  ![t].n = HeadNode, ![t].n2 = NullNode,
                                  ![t].updates = InsIdle.updates,
                                  ![t].update_nexts = InsIdle.update_nexts]
    /\ UNCHANGED <<ndebug, rtVars, logVars, stVars, fileVars, calls, nodeKey, record_idx, records, next_record,
                   data_size, total_data_size, is_locked, returned>>

\* data_size += size; return new_node
InsFin(t) ==
    /\ MemRunning
    /\ ins[t].pc = "fin"
    /\ data_size' = data_size + ins[t].size
    /\ ins' = [ins EXCEPT ![t] = InsIdle]
    /\ returned' = returned \cup {<<t, ins[t].key, ins[t].r, ins[t].r>>}
    /\ UNCHANGED <<ndebug, rtVars, logVars, stVars, fileVars, calls, next, nodeKey, record_idx, records, next_record,
                   total_data_size, is_locked>>

\* skiptable::find on the links as they stand: the node or NullNode
RECURSIVE findFrom(_, _, _)
findFrom(key, n, i) ==
    LET n2 == next[n][i]
        comp == IF n2 = NullNode THEN -1 ELSE compare(key, nodeKey[n2])
    IN  IF comp < 0 THEN (IF i = 0 THEN NullNode ELSE findFrom(key, n, i - 1))
        ELSE IF comp = 0 THEN n2
        ELSE findFrom(key, n2, i)

\* levels above MaxOdds hold no node: the search passes them at the head
memFind(key) == findFrom(key, HeadNode, MaxOdds)

\* skiptable::get(key) on the live table
memGet(key) ==
    LET n == memFind(key) IN
    IF n = NullNode \/ record_idx[n] < 0 \/ record_idx[n] >= next_record
    THEN NoRecord
    ELSE [ok |-> TRUE, data |-> records[record_idx[n]].data, size |-> records[record_idx[n]].size]

(***************************************************************************)
(* walfile::log, one shared-memory access per step.  The ring buffer putq  *)
(* has concurrent_put_limit slots; q_mutex is a std::shared_mutex, kept as *)
(* the count of shared holds and the exclusive flag.                       *)
(***************************************************************************)
\* walfile::config_options::concurrent_put_limit
concurrent_put_limit == 3
LogThreads == {"t1", "t2"}
\* log calls issued to the walfile, by all threads together
MaxLogs == 3
\* the shared holds counted on q_mutex (a retrying producer adds one per round)
MaxShared == 4
NoNode == 0

LgIdle == [pc |-> "idle", node |-> NoNode, w |-> 0]

LogOff ==
    /\ q_shared = 0
    /\ q_excl = FALSE
    /\ write = 0
    /\ read = 0
    /\ putq = [i \in 0..(concurrent_put_limit - 1) |-> NoNode]
    /\ logfile = <<>>
    /\ lg = [t \in LogThreads |-> LgIdle]
    /\ logCalls = 0
    /\ logReturned = {}

\* a call of log(node) begins
LogCall(t) ==
    /\ lg[t].pc = "idle"
    /\ logCalls < MaxLogs
    /\ logCalls' = logCalls + 1
    /\ lg' = [lg EXCEPT ![t] = [pc |-> "lock_shared", node |-> logCalls + 1, w |-> 0]]
    /\ UNCHANGED <<ndebug, rtVars, memVars, stVars, fileVars, q_shared, q_excl, write, read, putq,
                   logfile, logReturned>>

\* log_retry: q_mutex.lock_shared(); it waits while a drainer holds the mutex
LogLockShared(t) ==
    /\ lg[t].pc = "lock_shared"
    /\ ~q_excl
    /\ q_shared < MaxShared
    /\ q_shared' = q_shared + 1
    /\ lg' = [lg EXCEPT ![t].pc = "load"]
    /\ UNCHANGED <<ndebug, rtVars, memVars, stVars, fileVars, q_excl, write, read, putq, logfile,
                   logCalls, logReturned>>

\* size_t w = this->write
LogLoad(t) ==
    /\ lg[t].pc = "load"
    /\ lg' = [lg EXCEPT ![t].pc = "cas", ![t].w = write]
    /\ UNCHANGED <<ndebug, rtVars, memVars, stVars, fileVars, q_shared, q_excl, write, read, putq,
                   logfile, logCalls, logReturned>>

\* if (next == read || !write.compare_exchange_weak(w, next)) goto log_retry:
\* the shared hold is kept on the way back to lock_shared
LogCas(t) ==
    /\ lg[t].pc = "cas"
    /\ LET nxt == (lg[t].w + 1) % concurrent_put_limit IN
       IF nxt = read \/ write # lg[t].w
       THEN /\ lg' = [lg EXCEPT ![t].pc = "lock_shared"]
            /\ UNCHANGED write
       ELSE /\ write' = nxt
            /\ lg' = [lg EXCEPT ![t].pc = "store"]
    /\ UNCHANGED <<ndebug, rtVars, memVars, stVars, fileVars, q_shared, q_excl, read, putq, logfile,
                   logCalls, logReturned>>

\* putq.at(w) = node
LogStore(t) ==
    /\ lg[t].pc = "store"
    /\ putq' = [putq EXCEPT ![lg[t].w] = lg[t].node]
    /\ lg' = [lg EXCEPT ![t].pc = "unlock_shared"]
    /\ UNCHANGED <<ndebug, rtVars, memVars, stVars, fileVars, q_shared, q_excl, write, read, logfile,
                   logCalls, logReturned>>

\* q_mutex.unlock_shared()
LogUnlockShared(t) ==
    /\ lg[t].pc = "unlock_shared"
    /\ q_shared' = q_shared - 1
    /\ lg' = [lg EXCEPT ![t].pc = "try_lock"]
    /\ UNCHANGED <<ndebug, rtVars, memVars, stVars, fileVars, q_excl, write, read, putq, logfile,
                   logCalls, logReturned>>

\* a try_lock that succeeds while producers hold the shared side
LogTryLockOverShared(t) ==
    /\ lg[t].pc = "try_lock"
    /\ IF ~q_excl
       THEN /\ q_excl' = TRUE
            /\ lg' = [lg EXCEPT ![t].pc = "drain"]
            /\ UNCHANGED logReturned
       ELSE /\ lg' = [lg EXCEPT ![t] = LgIdle]
            /\ logReturned' = logReturned \cup {lg[t].node}
            /\ UNCHANGED q_excl
    /\ UNCHANGED <<ndebug, rtVars, memVars, stVars, fileVars, q_shared, write, read, putq, logfile,
                   logCalls>>

\* if (q_mutex.try_lock()) drain, else return
LogTryLock(t) ==
    /\ lg[t].pc = "try_lock"
    /\ IF q_shared = 0 /\ ~q_excl
       THEN /\ q_excl' = TRUE
            /\ lg' = [lg EXCEPT ![t].pc = "drain"]
            /\ UNCHANGED logReturned
       ELSE /\ lg' = [lg EXCEPT ![t] = LgIdle]
            /\ logReturned' = logReturned \cup {lg[t].node}
            /\ UNCHANGED q_excl
    /\ UNCHANGED <<ndebug, rtVars, memVars, stVars, fileVars, q_shared, write, read, putq, logfile,
                   logCalls>>

\* one round of while (read != write): the node of slot read is swapped out,
\* written to the file, and read advances
LogDrain(t) ==
    /\ lg[t].pc = "drain"
    /\ read # write
    /\ logfile' = Append(logfile, putq[read])
    /\ putq' = [putq EXCEPT ![read] = NoNode]
    /\ read' = (read + 1) % concurrent_put_limit
    /\ UNCHANGED <<ndebug, rtVars, memVars, stVars, fileVars, q_shared, q_excl, write, lg, logCalls,
                   logReturned>>

\* read == write: q_mutex.unlock(); return
LogUnlock(t) ==
    /\ lg[t].pc = "drain"
    /\ read = write
    /\ q_excl' = FALSE
    /\ lg' = [lg EXCEPT ![t] = LgIdle]
    /\ logReturned' = logReturned \cup {lg[t].node}
    /\ UNCHANGED <<ndebug, rtVars, memVars, stVars, fileVars, q_shared, write, read, putq, logfile,
                   logCalls>>

onDisk(node) == \E i \in 1..Len(logfile) : logfile[i] = node

(***************************************************************************)
(* The store coordinator.  store holds the kvstore object and the heap     *)
(* objects it owns, disk the two directories, th the locals and position   *)
(* of each thread, gh what the callers have observed.                      *)
(***************************************************************************)
\* kvstore::config_options::memtable_history
memtable_history == 0
\* put calls and get calls of one process lifetime without restart
MaxPuts == 4
MaxGets == 2
\* put and get calls together
MaxCalls == 4
\* put calls, get calls and restarts of a behaviour with shutdowns and crashes
LifePuts == 2
LifeGets == 1
MaxRestarts == 1
\* put calls of a behaviour with two callers
MTPuts == 3
\* put calls of a behaviour with two callers that put the same key
SamePuts == 2
\* put calls of a behaviour with two callers that fill the record array
SlotPuts == 4
\* the records of the WAL file a killed process leaves behind
MaxRecoverRecs == 4
\* put calls and get calls of one process lifetime with two keys
TwoPuts == 3
TwoGets == 1

Callers == {"c1", "c2"}
StoreThreads == Callers \cup {"bg"}
\* the thread that constructs and destroys the store
Owner == "c1"
StoreKeys == {<<"a">>, <<"b">>}
\* the keys of the two-caller behaviours: no two puts share a key
MTKeys == {<<"a">>, <<"b">>, <<"c">>}
AllKeys == StoreKeys \cup MTKeys
StoreValues == {<<>>, <<"a", "b">>, <<"b", "a">>}
\* the key of the behaviours of one process lifetime
OneKey == {<<"a">>}
\* the value of the two-caller behaviours
MTValues == {<<"a", "b">>}

ThIdle == [pc |-> "idle", key |-> <<>>, data |-> <<>>, tbl |-> 0, mt |-> 0,
           hn_next |-> 0, n |-> 0, save |-> 0, wf |-> 0,
           after |-> "none", flret |-> "none"]

NoRes == [key |-> <<>>, found |-> FALSE, data |-> <<>>, floor |-> 0, done |-> FALSE]

\* the store object right after its member initialisers: an empty active
\* memtable (table 1), no history, no SSTable handle
NewStore(walId) ==
    [proc |-> "running", tables |-> <<skiptable>>, histNext |-> <<0>>, freed |-> {},
     mtable |-> 1, hist |-> 0, sstq |-> <<>>, wal |-> walId, exit |-> FALSE]

\* the memory of a process that has ended
NoStore(how) ==
    [proc |-> how, tables |-> <<>>, histNext |-> <<>>, freed |-> {},
     mtable |-> 0, hist |-> 0, sstq |-> <<>>, wal |-> 0, exit |-> FALSE]

ThInit == [t \in StoreThreads |-> IF t = "bg" THEN [ThIdle EXCEPT !.pc = "bg_loop"] ELSE ThIdle]
ThOff == [t \in StoreThreads |-> ThIdle]

\* what the callers have seen before the first call
NoCalls(budget) ==
    [putLog |-> [k \in AllKeys |-> <<>>], puts |-> 0, gets |-> 0, restarts |-> 0,
     res |-> NoRes, getFloor |-> [k \in AllKeys |-> 0], clean |-> FALSE,
     budget |-> budget]

StoreInit(budget) ==
    /\ store = NewStore(1)
    /\ disk = [walRecs |-> <<<<>>>>, walExists |-> {}, sstDisk |-> {}, clock |-> 0]
    /\ th = ThInit
    /\ gh = NoCalls(budget)

StoreOff ==
    /\ store = NoStore("off")
    /\ disk = [walRecs |-> <<>>, walExists |-> {}, sstDisk |-> {}, clock |-> 0]
    /\ th = ThOff
    /\ gh = NoCalls([puts |-> 0, gets |-> 0, calls |-> 0, restarts |-> 0])

Running == store.proc = "running"

\* std::filesystem::remove of the file of a WAL
removeWal(d, f) == [d EXCEPT !.walExists = @ \ {f}, !.walRecs[f] = <<>>]

\* the bytes of a WAL file that holds the given records
RECURSIVE walBytes(_)
walBytes(recs) ==
    IF recs = <<>> THEN <<>>
    ELSE logBytes(Head(recs)[1], Head(recs)[2]) \o walBytes(Tail(recs))

\* what sstable::build writes: every linked key with the record of its node
tableData(t) == [k \in DOMAIN t.node |-> t.records[t.node[k] + 1].data]

isPrefix(p, s) == Len(p) <= Len(s) /\ SubSeq(s, 1, Len(p)) = p

\* sstable::get on a file in which every entry is an index key (no two
\* stored keys share a first byte): the search settles on the greatest stored
\* key that is not above the target and accepts it when it is a prefix of the
\* target.  A target below every stored key makes block wrap to SIZE_MAX, a
\* read outside the mapping: "ub".
sstGet(data, key) ==
    LET le == {k \in DOMAIN data : compare(k, key) <= 0} IN
    IF le = {} THEN [found |-> FALSE, ub |-> TRUE, data |-> <<>>]
    ELSE LET k == CHOOSE x \in le : \A y \in le : compare(y, x) <= 0 IN
         IF isPrefix(k, key) THEN [found |-> TRUE, ub |-> FALSE, data |-> data[k]]
         ELSE [found |-> FALSE, ub |-> FALSE, data |-> <<>>]

\* std::push_heap after push_back: the new last element is sifted up
RECURSIVE siftUp(_, _)
siftUp(c, i) ==
    IF i > 1 /\ c[i \div 2].t < c[i].t
    THEN siftUp([c EXCEPT ![i] = c[i \div 2], ![i \div 2] = c[i]], i \div 2)
    ELSE c

\* sst_queue::emplace (std::priority_queue<sstable>, operator< on the timestamp)
emplace(c, sst) == siftUp(Append(c, sst), Len(c) + 1)

\* the loop over sstq in kvstore::get: the vector c in index order
RECURSIVE sstSearch(_, _, _)
sstSearch(c, i, key) ==
    IF i > Len(c) THEN [found |-> FALSE, ub |-> FALSE, data |-> <<>>]
    ELSE LET r == sstGet(c[i].data, key) IN
         IF r.found \/ r.ub THEN r ELSE sstSearch(c, i + 1, key)

\* the number of hist_nodes reachable from a node
RECURSIVE histCount(_, _)
histCount(histNext, n) == IF n = 0 THEN 0 ELSE 1 + histCount(histNext, histNext[n])

\* the tables reachable from a node
RECURSIVE histTables(_, _)
histTables(histNext, n) ==
    IF n = 0 THEN {} ELSE {n} \cup histTables(histNext, histNext[n])

\* positions of a value among the acknowledged puts of a key
firstPos(log, data) ==
    IF \E i \in 1..Len(log) : log[i] = data
    THEN CHOOSE i \in 1..Len(log) : log[i] = data /\ \A j \in 1..(i - 1) : log[j] # data
    ELSE 0
lastPos(log, data) ==
    IF \E i \in 1..Len(log) : log[i] = data
    THEN CHOOSE i \in 1..Len(log) : log[i] = data /\ \A j \in (i + 1)..Len(log) : log[j] # data
    ELSE 0

MaxInt(a, b) == IF a >= b THEN a ELSE b

\* a thread returns from save_memtable to its caller
smReturn(s) == [s EXCEPT !.pc = IF s.after = "put" THEN "put_locked" ELSE "fl_wal",
                         !.mt = 0, !.hn_next = 0]

\* the process dies: an out-of-bounds access, a use after free, an abort
Dies ==
    /\ store' = NoStore("crashed")
    /\ th' = ThOff
    /\ gh' = [gh EXCEPT !.res = NoRes, !.clean = FALSE]
    /\ UNCHANGED disk

\* kvstore::put begins
Put(t, key, data) ==
    /\ Running /\ ~store.exit
    /\ th[t].pc = "idle"
    /\ gh.puts < gh.budget.puts /\ gh.puts + gh.gets < gh.budget.calls
    /\ th' = [th EXCEPT ![t] = [ThIdle EXCEPT !.pc = "put_locked", !.key = key, !.data = data]]
    /\ gh' = [gh EXCEPT !.puts = @ + 1, !.res = NoRes, !.clean = FALSE]
    /\ UNCHANGED <<store, disk>>

\* put_retry: mtable->insert up to if (this->locked()) return nullptr;
\* on nullptr put calls save_memtable and comes back here
PutLocked(t) ==
    /\ Running
    /\ th[t].pc = "put_locked"
    /\ th' = [th EXCEPT ![t] =
                IF locked(store.tables[store.mtable])
                THEN [@ EXCEPT !.pc = "sm_empty", !.after = "put"]
                ELSE [@ EXCEPT !.pc = "put_body", !.tbl = store.mtable]]
    /\ UNCHANGED <<store, disk, gh>>

\* the rest of mtable->insert: the slot, the record, the node.  On a table
\* that flush_memtables has deleted, or with every slot of records taken, the
\* writes go outside live memory: the process dies or goes on with the bytes
\* it finds there
PutBody(t) ==
    /\ Running
    /\ th[t].pc = "put_body"
    /\ LET tbl == th[t].tbl IN
       \/ /\ tbl \in store.freed \/ store.tables[tbl].next_record >= writes_before_lock
          /\ Dies
       \/ /\ store' = [store EXCEPT !.tables[tbl] =
                            insertBody(@, th[t].key, th[t].data, Len(th[t].data))]
          /\ th' = [th EXCEPT ![t].pc = "put_log"]
          /\ UNCHANGED <<disk, gh>>

\* this->wal->log(node), run without interference, and the return of put:
\* the file is opened for append and gets the key and the node's value
PutLog(t) ==
    /\ Running
    /\ th[t].pc = "put_log"
    /\ \/ /\ th[t].tbl \in store.freed
          /\ Dies
       \/  /\ disk' = [disk EXCEPT
                         !.walRecs[store.wal] = Append(@,
                             <<th[t].key, tableGet(store.tables[th[t].tbl], th[t].key).data>>),
                         !.walExists = @ \cup {store.wal}]
            /\ gh' = [gh EXCEPT !.putLog[th[t].key] = Append(@, th[t].data)]
            /\ th' = [th EXCEPT ![t] = ThIdle]
            /\ UNCHANGED store

\* save_memtable: if (this->mtable->empty()) return
SmEmpty(t) ==
    /\ Running
    /\ th[t].pc = "sm_empty"
    /\ th' = [th EXCEPT ![t] = IF empty(store.tables[store.mtable])
                               THEN smReturn(@) ELSE [@ EXCEPT !.pc = "sm_swap"]]
    /\ UNCHANGED <<store, disk, gh>>

\* mt = make_unique<skiptable>(); std::swap(this->mtable, mt)
SmSwap(t) ==
    /\ Running
    /\ th[t].pc = "sm_swap"
    /\ store' = [store EXCEPT !.tables = Append(@, skiptable),
                              !.histNext = Append(@, 0),
                              !.mtable = Len(store.tables) + 1]
    /\ th' = [th EXCEPT ![t].pc = "sm_lock", ![t].mt = store.mtable]
    /\ UNCHANGED <<disk, gh>>

\* mt->lock()
SmLock(t) ==
    /\ Running
    /\ th[t].pc = "sm_lock"
    /\ store' = [store EXCEPT !.tables[th[t].mt] = lock(@)]
    /\ th' = [th EXCEPT ![t].pc = "sm_load"]
    /\ UNCHANGED <<disk, gh>>

\* hn->next = this->hist
SmLoad(t) ==
    /\ Running
    /\ th[t].pc = "sm_load"
    /\ th' = [th EXCEPT ![t].pc = "sm_cas", ![t].hn_next = store.hist]
    /\ UNCHANGED <<store, disk, gh>>

\* this->hist.compare_exchange_weak(hn->next, hn)
SmCas(t) ==
    /\ Running
    /\ th[t].pc = "sm_cas"
    /\ IF store.hist = th[t].hn_next
       THEN /\ store' = [store EXCEPT !.hist = th[t].mt,
                                      !.histNext[th[t].mt] = th[t].hn_next]
            /\ th' = [th EXCEPT ![t] = smReturn(@)]
       ELSE /\ th' = [th EXCEPT ![t].pc = "sm_load"]
            /\ UNCHANGED store
    /\ UNCHANGED <<disk, gh>>

\* kvstore::get begins
Get(t, key) ==
    /\ Running /\ ~store.exit
    /\ th[t].pc = "idle"
    /\ gh.gets < gh.budget.gets /\ gh.puts + gh.gets < gh.budget.calls
    /\ th' = [th EXCEPT ![t] = [ThIdle EXCEPT !.pc = "get_mt", !.key = key]]
    /\ gh' = [gh EXCEPT !.gets = @ + 1, !.res = NoRes]
    /\ UNCHANGED <<store, disk>>

\* get returns: what the caller has seen
getReturn(t, found, data) ==
    /\ th' = [th EXCEPT ![t] = ThIdle]
    /\ gh' = [gh EXCEPT
                !.res = [key |-> th[t].key, found |-> found, data |-> data,
                         floor |-> gh.getFloor[th[t].key], done |-> TRUE],
                !.getFloor[th[t].key] =
                    IF found THEN MaxInt(@, firstPos(gh.putLog[th[t].key], data)) ELSE @]

\* record = this->mtable->get(key)
GetMt(t) ==
    /\ Running
    /\ th[t].pc = "get_mt"
    /\ LET rec == tableGet(store.tables[store.mtable], th[t].key) IN
       IF rec.ok
       THEN getReturn(t, TRUE, rec.data)
       ELSE /\ th' = [th EXCEPT ![t].pc = "get_hist"]
            /\ UNCHANGED gh
    /\ UNCHANGED <<store, disk>>

\* hist_node * n = this->hist
GetHist(t) ==
    /\ Running
    /\ th[t].pc = "get_hist"
    /\ th' = [th EXCEPT ![t].pc = "get_walk", ![t].n = store.hist]
    /\ UNCHANGED <<store, disk, gh>>

\* one round of while (n): n->table->get(key), n = n->next
GetWalk(t) ==
    /\ Running
    /\ th[t].pc = "get_walk"
    /\ LET n == th[t].n IN
       IF n = 0
       THEN /\ th' = [th EXCEPT ![t].pc = "get_sst"]
            /\ UNCHANGED <<store, disk, gh>>
       ELSE \/ /\ n \in store.freed
               /\ Dies
            \/ LET rec == tableGet(store.tables[n], th[t].key) IN
                 /\ IF rec.ok
                    THEN getReturn(t, TRUE, rec.data)
                    ELSE /\ th' = [th EXCEPT ![t].n = store.histNext[n]]
                         /\ UNCHANGED gh
                 /\ UNCHANGED <<store, disk>>

\* the loop over sstq under the shared lock, and return false after it
GetSst(t) ==
    /\ Running
    /\ th[t].pc = "get_sst"
    /\ LET r == sstSearch(store.sstq, 1, th[t].key) IN
       IF r.ub
       THEN Dies
       ELSE /\ getReturn(t, r.found, r.data)
            /\ UNCHANGED <<store, disk>>

\* background: while (!this->exit)
BgLoop ==
    /\ Running
    /\ th["bg"].pc = "bg_loop"
    /\ th' = [th EXCEPT !["bg"].pc = IF store.exit THEN "bg_done" ELSE "bg_sleep"]
    /\ UNCHANGED <<store, disk, gh>>

\* a worker that flushes only above memtable_history + 2 entries
BgWakeLate ==
    /\ Running
    /\ th["bg"].pc = "bg_sleep"
    /\ th' = [th EXCEPT !["bg"] =
                IF store.exit THEN [@ EXCEPT !.pc = "bg_done"]
                ELSE IF histCount(store.histNext, store.hist) > memtable_history + 2
                THEN [@ EXCEPT !.pc = "sm_empty", !.after = "flush", !.flret = "bg"]
                ELSE [@ EXCEPT !.pc = "bg_loop"]]
    /\ UNCHANGED <<store, disk, gh>>

\* the thread wakes from sleep_until(next_wake): if (exit) break; the history
\* is counted; above memtable_history flush_memtables is called
BgWake ==
    /\ Running
    /\ th["bg"].pc = "bg_sleep"
    /\ th' = [th EXCEPT !["bg"] =
                IF store.exit THEN [@ EXCEPT !.pc = "bg_done"]
                ELSE IF histCount(store.histNext, store.hist) > memtable_history
                THEN [@ EXCEPT !.pc = "sm_empty", !.after = "flush", !.flret = "bg"]
                ELSE [@ EXCEPT !.pc = "bg_loop"]]
    /\ UNCHANGED <<store, disk, gh>>

\* flush_memtables: wf = make_unique<walfile>(); std::swap(this->wal, wf)
FlWal(t) ==
    /\ Running
    /\ th[t].pc = "fl_wal"
    /\ store' = [store EXCEPT !.wal = Len(disk.walRecs) + 1]
    /\ disk' = [disk EXCEPT !.walRecs = Append(@, <<>>)]
    /\ th' = [th EXCEPT ![t].pc = "fl_take", ![t].wf = store.wal]
    /\ UNCHANGED gh

\* save = this->hist.exchange(nullptr)
FlTake(t) ==
    /\ Running
    /\ th[t].pc = "fl_take"
    /\ store' = [store EXCEPT !.hist = 0]
    /\ th' = [th EXCEPT ![t].pc = "fl_build", ![t].save = store.hist]
    /\ UNCHANGED <<disk, gh>>

\* while (save): under sst_mutex, sstq.emplace(sst_options, *save->table);
\* after the loop wf goes out of scope and ~walfile removes the old log file
FlBuild(t) ==
    /\ Running
    /\ th[t].pc = "fl_build"
    /\ IF th[t].save = 0
       THEN /\ disk' = removeWal(disk, th[t].wf)
            /\ th' = [th EXCEPT ![t] =
                        IF @.flret = "bg" THEN [ThIdle EXCEPT !.pc = "bg_loop"]
                        ELSE [ThIdle EXCEPT !.pc = "dtor_end"]]
            /\ UNCHANGED store
       ELSE LET sst == [t |-> disk.clock + 1,
                        data |-> tableData(store.tables[th[t].save])] IN
            /\ store' = [store EXCEPT !.sstq = emplace(@, sst)]
            /\ disk' = [disk EXCEPT !.sstDisk = @ \cup {sst}, !.clock = @ + 1]
            /\ th' = [th EXCEPT ![t].pc = "fl_del"]
    /\ UNCHANGED gh

\* delnode = save; save = save->next; delete delnode
FlDel(t) ==
    /\ Running
    /\ th[t].pc = "fl_del"
    /\ store' = [store EXCEPT !.freed = @ \cup {th[t].save}]
    /\ th' = [th EXCEPT ![t].pc = "fl_build", ![t].save = store.histNext[th[t].save]]
    /\ UNCHANGED <<disk, gh>>

\* ~kvstore: this->exit = true
Dtor ==
    /\ Running /\ ~store.exit
    /\ \A c \in Callers : th[c].pc = "idle"
    /\ store' = [store EXCEPT !.exit = TRUE]
    /\ th' = [th EXCEPT ![Owner].pc = "dtor_join"]
    /\ gh' = [gh EXCEPT !.res = NoRes]
    /\ UNCHANGED disk

\* a destructor that calls flush_memtables without joining the worker
DtorNoJoin ==
    /\ Running
    /\ th[Owner].pc = "dtor_join"
    /\ th' = [th EXCEPT ![Owner] = [@ EXCEPT !.pc = "sm_empty", !.after = "flush",
                                               !.flret = "dtor"]]
    /\ UNCHANGED <<store, disk, gh>>

\* background_thread.join(); this->flush_memtables()
DtorJoin ==
    /\ Running
    /\ th[Owner].pc = "dtor_join"
    /\ th["bg"].pc = "bg_done"
    /\ th' = [th EXCEPT ![Owner] = [@ EXCEPT !.pc = "sm_empty", !.after = "flush",
                                               !.flret = "dtor"]]
    /\ UNCHANGED <<store, disk, gh>>

\* the members are destroyed: ~walfile removes the log file of the current WAL
DtorEnd ==
    /\ Running
    /\ th[Owner].pc = "dtor_end"
    /\ disk' = removeWal(disk, store.wal)
    /\ store' = NoStore("down")
    /\ th' = ThOff
    /\ gh' = [gh EXCEPT !.clean = TRUE]

\* the process is killed
Crash ==
    /\ Running
    /\ gh.restarts < gh.budget.restarts
    /\ Dies

\* kvstore::kvstore begins on the same directories: the member initialisers
Ctor ==
    /\ store.proc \in {"down", "crashed"}
    /\ gh.restarts < gh.budget.restarts
    /\ store' = [NewStore(Len(disk.walRecs) + 1) EXCEPT !.proc = "starting"]
    /\ disk' = [disk EXCEPT !.walRecs = Append(@, <<>>)]
    /\ gh' = [gh EXCEPT !.restarts = @ + 1, !.res = NoRes,
                        !.getFloor = [k \in AllKeys |-> 0]]
    /\ UNCHANGED th

\* save_memtable with no other thread running
saveMemtable(s) ==
    IF empty(s.tables[s.mtable]) THEN s
    ELSE [s EXCEPT !.tables = Append([@ EXCEPT ![s.mtable] = lock(@)], skiptable),
                   !.histNext = Append([@ EXCEPT ![s.mtable] = s.hist], 0),
                   !.hist = s.mtable,
                   !.mtable = Len(s.tables) + 1]

\* one round of the loop over the WAL directory: walfile::load into *mtable,
\* save_memtable if that sealed it, std::filesystem::remove
CtorWal(f) ==
    /\ store.proc = "starting"
    /\ f \in disk.walExists
    /\ LET bytes == walBytes(disk.walRecs[f])
           s1 == [store EXCEPT !.tables[store.mtable] = load(bytes, @)]
       IN  IF ~ndebug /\ loadAborts(bytes, store.tables[store.mtable])
           THEN /\ store' = NoStore("crashed")
                /\ UNCHANGED disk
           ELSE /\ store' = IF locked(s1.tables[s1.mtable]) THEN saveMemtable(s1) ELSE s1
                /\ disk' = removeWal(disk, f)
    /\ UNCHANGED <<th, gh>>

\* one round of the loop over the SSTable directory: sstq.emplace(item.path())
CtorSst(sst) ==
    /\ store.proc = "starting"
    /\ disk.walExists = {}
    /\ sst \in disk.sstDisk
    /\ \A i \in 1..Len(store.sstq) : store.sstq[i] # sst
    /\ store' = [store EXCEPT !.sstq = emplace(@, sst)]
    /\ UNCHANGED <<disk, th, gh>>

\* the background thread is started and the constructor returns
CtorStart ==
    /\ store.proc = "starting"
    /\ disk.walExists = {}
    /\ \A sst \in disk.sstDisk : \E i \in 1..Len(store.sstq) : store.sstq[i] = sst
    /\ store' = [store EXCEPT !.proc = "running"]
    /\ th' = ThInit
    /\ UNCHANGED <<disk, gh>>

\* kvstore::get run without interference on the store as it stands
RECURSIVE histSearch(_, _, _)
histSearch(s, n, key) ==
    IF n = 0 THEN NoRecord
    ELSE IF tableGet(s.tables[n], key).ok THEN tableGet(s.tables[n], key)
    ELSE histSearch(s, s.histNext[n], key)

get(s, key) ==
    IF tableGet(s.tables[s.mtable], key).ok
    THEN [found |-> TRUE, ub |-> FALSE, data |-> tableGet(s.tables[s.mtable], key).data]
    ELSE IF histSearch(s, s.hist, key).ok
    THEN [found |-> TRUE, ub |-> FALSE, data |-> histSearch(s, s.hist, key).data]
    ELSE sstSearch(s.sstq, 1, key)

(***************************************************************************)
(* The SSTable file, byte by byte.  sstIn is the sealed memtable and the   *)
(* block size handed to sstable::build, sstOut the file it wrote, sstRes   *)
(* the outcome of the last sstable::get on that file.                      *)
(***************************************************************************)
\* keys and values of the memtables written to a file
SstKeys == {<<"a">>, <<"a", "a">>, <<"a", "b">>, <<"b">>, <<"b", "a">>, <<"b", "b">>}
\* the keys looked up: the stored ones, the empty key and an extension
SstGetKeys == SstKeys \cup {<<>>, <<"a", "b", "a">>, <<"b", "b", "b">>}
\* at most this many keys in a memtable
MaxSstKeys == 3
\* sstable::config_options::max_block_size: each of these multiplied by 8
SmallBlock == 5
LargeBlock == 12
BlockSizes == {8 * SmallBlock, 8 * LargeBlock}

\* an integer that does not fit 24 bits: only its being out of range matters
Huge == 256 * 65536

bytesOf(s) == [i \in 1..Len(s) |-> ord(s[i])]
zeros(n) == [i \in 1..n |-> 0]

\* an unsigned integer below 2^24 in w bytes, little-endian
le(n, w) == [i \in 1..w |->
                IF i = 1 THEN n % 256
                ELSE IF i = 2 THEN (n \div 256) % 256
                ELSE IF i = 3 THEN (n \div 65536) % 256
                ELSE 0]

\* footer::MAGIC_NUMBER 0x677265676F727968, little-endian
MagicBytes == <<104, 121, 114, 111, 103, 101, 114, 103>>

\* the bytes [off, off + n) are inside the mapping of the file
inFile(f, off, n) == off >= 0 /\ off + n <= Len(f)

\* the unsigned integer of w bytes at offset off
rd(f, off, w) ==
    IF \E i \in 4..w : f[off + i] # 0 THEN Huge
    ELSE f[off + 1] + 256 * f[off + 2] + 65536 * f[off + 3]

\* std::string_view::compare on bytes
RECURSIVE cmpBytes(_, _)
cmpBytes(x, y) ==
    IF x = <<>> THEN (IF y = <<>> THEN 0 ELSE -1)
    ELSE IF y = <<>> THEN 1
    ELSE IF Head(x) = Head(y) THEN cmpBytes(Tail(x), Tail(y))
    ELSE IF Head(x) < Head(y) THEN -1 ELSE 1

Min(a, b) == IF a <= b THEN a ELSE b

\* std::string_view::substr(pos, n) for pos <= size()
substr(s, pos, n) == SubSeq(s, pos + 1, Min(pos + n, Len(s)))

\* entry_header::padding_bytes
padding_bytes(n) == 8 - (n % 8)

\* sstable::header_from: the header and the prefix it leaves
RECURSIVE commonLen(_, _, _)
commonLen(prefix, key, i) ==
    IF i < Len(prefix) /\ i < Len(key) /\ prefix[i + 1] = key[i + 1]
    THEN commonLen(prefix, key, i + 1) ELSE i

header_from(prefix, key, size) ==
    LET pb == IF prefix = <<>> THEN 0 ELSE commonLen(prefix, key, 0) IN
    [prefix |-> IF prefix = <<>> THEN key ELSE prefix,
     prefix_bytes |-> pb, suffix_bytes |-> Len(key) - pb, value_bytes |-> size]

\* the keys of a memtable in the order of its level-0 chain
RECURSIVE sortedKeys(_)
sortedKeys(ks) ==
    IF ks = {} THEN <<>>
    ELSE LET m == CHOOSE k \in ks : \A x \in ks : compare(k, x) <= 0
         IN  <<m>> \o sortedKeys(ks \ {m})

\* idx_offsets.data() as bytes
RECURSIVE offsetBytes(_)
offsetBytes(s) == IF s = <<>> THEN <<>> ELSE le(Head(s), 8) \o offsetBytes(Tail(s))

\* the padding and the block footer that close a block
blockEnd(max_block_size, block_bytes, idx_offsets) ==
    LET footer_bytes == 8 * (Len(idx_offsets) + 1)
        pad == IF block_bytes < max_block_size - footer_bytes
               THEN (max_block_size - footer_bytes) - block_bytes ELSE 0
    \* (max_block_size - footer_bytes is unsigned; the tables drawn here have at
    \* most max_block_size / 8 - 1 index keys in a block, so it does not wrap)
    IN  zeros(pad) \o offsetBytes(idx_offsets) \o le(Len(idx_offsets), 8)

\* one round of the loop of sstable::build for the node n of key keys[i]
RECURSIVE buildLoop(_, _, _, _, _)
buildLoop(t, max_block_size, keys, i, b) ==
    IF i > Len(keys) THEN b
    ELSE
    LET key == bytesOf(keys[i])
        rec == t.records[t.node[keys[i]] + 1]
        hdr == header_from(b.prefix, key, rec.size)
        idx_key == hdr.prefix_bytes = 0
        entry_bytes == 16 + hdr.suffix_bytes + padding_bytes(hdr.suffix_bytes)
                          + rec.size + padding_bytes(rec.size)
        \* the right-hand side is unsigned: below zero it wraps to a huge number
        room == max_block_size - entry_bytes - (IF idx_key THEN 8 ELSE 0)
                    - 8 * Len(b.idx_offsets) - 8
        newBlock == room >= 0 /\ b.block_bytes > room
        b1 == IF newBlock
              THEN [b EXCEPT !.file = @ \o blockEnd(max_block_size, b.block_bytes, b.idx_offsets),
                             !.blocks = @ + 1,
                             !.block_bytes = 0,
                             !.idx_offsets = <<>>,
                             !.prefix = <<>>,
                             !.starts = Append(@, Len(b.file)
                                 + Len(blockEnd(max_block_size, b.block_bytes, b.idx_offsets)))]
              ELSE [b EXCEPT !.prefix = hdr.prefix]
        b2 == [b1 EXCEPT
                 !.idx_offsets = IF idx_key THEN Append(@, b1.block_bytes) ELSE @,
                 !.file = @ \o le(hdr.prefix_bytes, 4) \o le(hdr.suffix_bytes, 4)
                            \o le(hdr.value_bytes, 8)
                            \o substr(key, hdr.prefix_bytes, hdr.suffix_bytes)
                            \o zeros(padding_bytes(hdr.suffix_bytes))
                            \o bytesOf(rec.data)
                            \o zeros(padding_bytes(rec.size)),
                 !.block_bytes = @ + entry_bytes,
                 !.key_bytes = @ + Len(key),
                 !.data_bytes = @ + rec.size,
                 !.entries = @ + 1]
        b3 == IF i = Len(keys)
              THEN [b2 EXCEPT !.file = @ \o blockEnd(max_block_size, b2.block_bytes,
                                                     b2.idx_offsets),
                              !.blocks = @ + 1]
              ELSE b2
    IN  buildLoop(t, max_block_size, keys, i + 1, b3)

\* sstable::build on a locked table: the file, the number of blocks and the
\* offset at which each block starts
build(t, max_block_size) ==
    LET b == buildLoop(t, max_block_size, sortedKeys(DOMAIN t.node), 1,
                 [file |-> <<>>, blocks |-> 0, key_bytes |-> 0, data_bytes |-> 0,
                  entries |-> 0, prefix |-> <<>>, block_bytes |-> 0,
                  idx_offsets |-> <<>>, starts |-> <<0>>])
    IN  [file |-> b.file \o le(max_block_size, 8) \o le(b.blocks, 8) \o le(b.entries, 8)
                    \o le(b.key_bytes, 8) \o le(b.data_bytes, 8) \o MagicBytes,
         blocks |-> b.blocks,
         starts |-> b.starts]

\* the outcomes of sstable::get: true with the bytes, false, a read outside the
\* mapping of the file, or the end of the process (a failed assert, an
\* uncaught std::out_of_range)
Found(data) == [status |-> "found", data |-> data]
Miss == [status |-> "miss", data |-> <<>>]
Outside == [status |-> "outside", data |-> <<>>]
Abort == [status |-> "abort", data |-> <<>>]

\* the key stored in the entry at offset off
entryKey(f, off) == SubSeq(f, off + 17, off + 16 + rd(f, off + 4, 4))

\* reading the header at off and the key after it stays inside the mapping
entryInFile(f, off) ==
    /\ inFile(f, off, 16)
    /\ inFile(f, off + 16, rd(f, off + 4, 4))

\* the loop that finds the block: the index of the first block whose first key
\* is above the target, block_count if there is none
RECURSIVE findBlock(_, _, _, _, _, _)
findBlock(f, key, nd, block_size, block_count, block) ==
    IF block >= block_count THEN [status |-> "ok", block |-> block]
    ELSE LET offset == block * block_size IN
         IF ~entryInFile(f, offset) THEN [status |-> "outside", block |-> block]
         ELSE IF ~nd /\ rd(f, offset, 4) # 0 THEN [status |-> "abort", block |-> block]
         ELSE IF cmpBytes(key, entryKey(f, offset)) < 0 THEN [status |-> "ok", block |-> block]
         ELSE findBlock(f, key, nd, block_size, block_count, block + 1)

\* the loop over the index keys of the block: the offset of the sub-block to
\* search and the index key taken as prefix
RECURSIVE findIndex(_, _, _, _, _, _, _, _, _)
findIndex(f, key, nd, block_base, block_size, idx_count, idx, idx_offset, prefix) ==
    IF idx >= idx_count THEN [status |-> "ok", idx_offset |-> idx_offset, prefix |-> prefix]
    ELSE LET at == block_base + block_size - 8 * ((1 + idx_count) - idx) IN
         IF ~inFile(f, at, 8) THEN [status |-> "outside", idx_offset |-> 0, prefix |-> <<>>]
         ELSE LET off == block_base + rd(f, at, 8) IN
              IF ~entryInFile(f, off)
              THEN [status |-> "outside", idx_offset |-> 0, prefix |-> <<>>]
              ELSE IF ~nd /\ rd(f, off, 4) # 0
              THEN [status |-> "abort", idx_offset |-> 0, prefix |-> <<>>]
              ELSE IF cmpBytes(key, entryKey(f, off)) < 0
              THEN [status |-> "ok", idx_offset |-> idx_offset, prefix |-> prefix]
              ELSE findIndex(f, key, nd, block_base, block_size, idx_count, idx + 1,
                             rd(f, at, 8), entryKey(f, off))

\* the do-while over the entries of the sub-block, hdr at offset off
RECURSIVE walk(_, _, _, _)
walk(f, key, prefix, off) ==
    IF ~entryInFile(f, off) THEN Outside
    ELSE LET prefix_bytes == rd(f, off, 4)
             suffix_bytes == rd(f, off + 4, 4)
             value_bytes == rd(f, off + 8, 8)
             src == off + 16 + suffix_bytes + padding_bytes(suffix_bytes)
             nxt == src + value_bytes + padding_bytes(value_bytes)
         IN  IF substr(key, 0, prefix_bytes) = substr(prefix, 0, prefix_bytes)
             THEN IF prefix_bytes > Len(key) THEN Abort
                  ELSE IF substr(key, prefix_bytes, suffix_bytes) = entryKey(f, off)
                  THEN IF inFile(f, src, value_bytes)
                       THEN Found(SubSeq(f, src + 1, src + value_bytes))
                       ELSE Outside
                  ELSE IF ~inFile(f, nxt, 4) THEN Outside
                  ELSE IF rd(f, nxt, 4) # 0 THEN walk(f, key, prefix, nxt)
                  ELSE Miss
             ELSE IF ~inFile(f, nxt, 4) THEN Outside
             ELSE IF rd(f, nxt, 4) # 0 THEN walk(f, key, prefix, nxt)
             ELSE Miss

\* sstable::get on the file f for the key (as bytes); nd is NDEBUG
sstableGet(f, key, nd) ==
    LET file_size == Len(f)
        block_size == rd(f, file_size - 48, 8)
        block_count == rd(f, file_size - 40, 8)
        fb == findBlock(f, key, nd, block_size, block_count, 0)
        \* block -= 1: from 0 it wraps to SIZE_MAX, and block * block_size is
        \* then block_size bytes before the mapping
        block_base == (fb.block - 1) * block_size
    IN  IF fb.status = "outside" THEN Outside
        ELSE IF fb.status = "abort" THEN Abort
        ELSE IF ~inFile(f, block_base + block_size - 8, 8) THEN Outside
        ELSE LET idx_count == rd(f, block_base + block_size - 8, 8)
                 fi == findIndex(f, key, nd, block_base, block_size, idx_count, 0, 0, <<>>)
             IN  IF fi.status = "outside" THEN Outside
                 ELSE IF fi.status = "abort" THEN Abort
                 ELSE walk(f, key, fi.prefix, block_base + fi.idx_offset)

\* the memtable that holds the keys ks with the values vals[k], sealed
RECURSIVE tableOf(_, _, _)
tableOf(keys, vals, i) ==
    IF i = 0 THEN skiptable
    ELSE insertBody(tableOf(keys, vals, i - 1), keys[i], vals[keys[i]], Len(vals[keys[i]]))

SstTables ==
    {lock(tableOf(sortedKeys(ks), vals, Cardinality(ks))) :
        ks \in {x \in SUBSET SstKeys : x # {} /\ Cardinality(x) <= MaxSstKeys},
        vals \in {[k \in SstKeys |-> IF k \in z THEN <<>> ELSE k] : z \in SUBSET SstKeys}}

NoFile == [built |-> FALSE, file |-> <<>>, blocks |-> 0, starts |-> <<>>]
NoGet == [done |-> FALSE, key |-> <<>>, status |-> "none", data |-> <<>>, outside |-> FALSE]

SstOff ==
    /\ sstIn = [table |-> skiptable, max_block_size |-> 0]
    /\ sstOut = NoFile
    /\ sstRes = NoGet

SstStart ==
    /\ sstIn \in [table : SstTables, max_block_size : BlockSizes]
    /\ sstOut = NoFile
    /\ sstRes = NoGet

\* sstable::sstable(opts, table): build
SstBuild ==
    /\ ~sstOut.built
    /\ locked(sstIn.table)
    /\ sstOut' = [built |-> TRUE] @@ build(sstIn.table, sstIn.max_block_size)
    /\ UNCHANGED <<sstIn, sstRes, bloomEnv, filters, bloomGh, lvl, sw>>

\* what a read outside the mapping can end in: a fault, or bytes of another
\* mapping that make the call return either way
OutsideOutcomes == {[status |-> "fault", data |-> <<>>], Miss, Found(<<>>)}

\* sstable::get(key, data_out)
SstGet(key) ==
    /\ sstOut.built
    /\ LET r == sstableGet(sstOut.file, bytesOf(key), ndebug) IN
       \E o \in (IF r.status = "outside" THEN OutsideOutcomes ELSE {r}) :
           sstRes' = [done |-> TRUE, key |-> key, status |-> o.status, data |-> o.data,
                      outside |-> r.status = "outside"]
    /\ UNCHANGED <<sstIn, sstOut, bloomEnv, filters, bloomGh, lvl, sw>>

(***************************************************************************)
(* The Bloom filters of bloom_filters.h.  An error rate is 2^-e and is     *)
(* held as its exponent e; logarithms are in millionths.                   *)
(***************************************************************************)
BloomElems == {"x", "y", "z"}
\* the error-rate exponents and the capacities a filter is created with
MaxRateExp == 2
MaxCapacity == 2
\* XXHash64::hash takes its values for the elements from 0..MaxHash
MaxHash == 2
\* scalable_filter::parameters::tightening_ratio 2^-TighteningExp, scaling_factor
TighteningExp == 1
scaling_factor == 2
\* log(2) and log(2) * log(2), in millionths
Ln2Micro == 693147
Ln2SqMicro == 480453
Micro == 1000 * 1000

\* XXHash64::hash(data, data_size, seed): some function of the bytes and the seed
XXHash64(x, seed) == bloomEnv.hashOf[x] * (seed + 1) + seed

\* parameters::hash_seeds, distinct
hash_seeds(i) == i

\* parameters::hash_count: ceil(log2(1.0 / 2^-e))
hash_count(e) == e

\* abs(log(target_error_rate)): with bloomEnv.intAbs the call resolves to
\* int abs(int) and the logarithm is truncated to an integer first
absLog(e) ==
    IF bloomEnv.intAbs THEN ((Ln2Micro * e) \div Micro) * Micro ELSE Ln2Micro * e

\* parameters::slice_bits
slice_bits(e, capacity) ==
    LET numerator == capacity * absLog(e)
        denominator == hash_count(e) * Ln2SqMicro
    IN  (numerator + denominator - 1) \div denominator

\* static_filter::static_filter with memory::memory
static_filter(e, capacity) ==
    LET slices == hash_count(e)
        bps == slice_bits(e, capacity)
        bit_count == slices * bps
        byte_count == (bit_count \div 8) + (IF bit_count % 8 # 0 THEN 1 ELSE 0)
    IN  [e |-> e, capacity |-> capacity, slices |-> slices, bps |-> bps,
         bits |-> [i \in 1..byte_count |-> 0], element_count |-> 0]

byte_idx(bit) == bit \div 8
sub_bit(bit) == 2 ^ (bit % 8)

\* memory::check
check(f, bit_idx) == (f.bits[byte_idx(bit_idx) + 1] \div sub_bit(bit_idx)) % 2 = 1

\* memory::set
set(f, bit_idx) ==
    IF check(f, bit_idx) THEN f
    ELSE [f EXCEPT !.bits[byte_idx(bit_idx) + 1] = @ + sub_bit(bit_idx)]

\* hash_i divides by mem.bps
divides_by_zero(f) == f.bps = 0

\* static_filter::hash_i, for bps > 0
hash_i(f, i, x) == (XXHash64(x, hash_seeds(i)) % f.bps) + (i * f.bps)

\* static_filter::might_contain, for bps > 0
might_contain(f, x) == \A i \in 0..(f.slices - 1) : check(f, hash_i(f, i, x))

\* the loop of insert and of insert_new from slice i on
RECURSIVE set_from(_, _, _)
set_from(f, i, x) ==
    IF i >= f.slices THEN f ELSE set_from(set(f, hash_i(f, i, x)), i + 1, x)

\* static_filter::insert, for bps > 0
filter_insert(f, x) ==
    LET all_set == might_contain(f, x) IN
    [set_from(f, 0, x) EXCEPT !.element_count = IF all_set THEN @ ELSE @ + 1]

\* static_filter::insert_new, for bps > 0
insert_new(f, x) == [set_from(f, 0, x) EXCEPT !.element_count = @ + 1]

\* static_filter::good
good(f) == f.element_count < f.capacity

\* scalable_filter::might_contain: the first sub-filter asked decides whether
\* the call divides by zero
scalable_might_contain(fs, x) == \E j \in 1..Len(fs) : might_contain(fs[j], x)

\* an insert that grows only after the newest sub-filter has gone over its
\* capacity
scalable_insert_late(fs, x) ==
    IF scalable_might_contain(fs, x) THEN fs
    ELSE LET back == fs[Len(fs)]
             grown == IF back.element_count > back.capacity
                      THEN Append(fs, static_filter(back.e + TighteningExp,
                                                    back.capacity * scaling_factor))
                      ELSE fs
         IN  [grown EXCEPT ![Len(grown)] = insert_new(@, x)]

\* scalable_filter::insert
scalable_insert(fs, x) ==
    IF scalable_might_contain(fs, x) THEN fs
    ELSE LET back == fs[Len(fs)]
             grown == IF ~good(back)
                      THEN Append(fs, static_filter(back.e + TighteningExp,
                                                    back.capacity * scaling_factor))
                      ELSE fs
         IN  [grown EXCEPT ![Len(grown)] = insert_new(@, x)]

NoBloomRes == [op |-> "none", x |-> "", r |-> FALSE]

BloomOff ==
    /\ bloomEnv = [which |-> "off", intAbs |-> FALSE, hashOf |-> [x \in BloomElems |-> 0]]
    /\ filters = <<>>
    /\ bloomGh = [inserted |-> {}, res |-> NoBloomRes, fault |-> FALSE]

\* a static_filter, or a scalable_filter with its first sub-filter
BloomStart ==
    /\ bloomEnv \in [which : {"static", "scalable"}, intAbs : BOOLEAN,
                     hashOf : [BloomElems -> 0..MaxHash]]
    /\ \E e \in 1..MaxRateExp, capacity \in 1..MaxCapacity :
           filters = <<static_filter(e, capacity)>>
    /\ bloomGh = [inserted |-> {}, res |-> NoBloomRes, fault |-> FALSE]

\* a division by zero: the process is killed, or the call returns some value
\* and leaves the filter as it was
DivOutcome(op, x) ==
    /\ filters' = filters
    /\ \/ bloomGh' = [bloomGh EXCEPT !.fault = TRUE]
       \/ \E r \in BOOLEAN :
              bloomGh' = [bloomGh EXCEPT
                  !.res = [op |-> op, x |-> x, r |-> r],
                  !.inserted = IF op = "insert" THEN @ \cup {x} ELSE @]

\* static_filter::insert(data, data_size)
StaticInsert(x) ==
    /\ bloomEnv.which = "static" /\ ~bloomGh.fault
    /\ IF divides_by_zero(filters[1]) THEN DivOutcome("insert", x)
       ELSE /\ filters' = <<filter_insert(filters[1], x)>>
            /\ bloomGh' = [bloomGh EXCEPT
                   !.res = [op |-> "insert", x |-> x, r |-> might_contain(filters[1], x)],
                   !.inserted = @ \cup {x}]
    /\ UNCHANGED bloomEnv

\* static_filter::might_contain(data, data_size)
StaticMightContain(x) ==
    /\ bloomEnv.which = "static" /\ ~bloomGh.fault
    /\ IF divides_by_zero(filters[1]) THEN DivOutcome("might_contain", x)
       ELSE /\ filters' = filters
            /\ bloomGh' = [bloomGh EXCEPT
                   !.res = [op |-> "might_contain", x |-> x, r |-> might_contain(filters[1], x)]]
    /\ UNCHANGED bloomEnv

\* scalable_filter::insert(data, data_size)
ScalableInsert(x) ==
    /\ bloomEnv.which = "scalable" /\ ~bloomGh.fault
    /\ IF divides_by_zero(filters[1]) THEN DivOutcome("insert", x)
       ELSE /\ filters' = scalable_insert(filters, x)
            /\ bloomGh' = [bloomGh EXCEPT
                   !.res = [op |-> "insert", x |-> x, r |-> scalable_might_contain(filters, x)],
                   !.inserted = @ \cup {x}]
    /\ UNCHANGED bloomEnv

\* scalable_filter::might_contain(data, data_size)
ScalableMightContain(x) ==
    /\ bloomEnv.which = "scalable" /\ ~bloomGh.fault
    /\ IF divides_by_zero(filters[1]) THEN DivOutcome("might_contain", x)
       ELSE /\ filters' = filters
            /\ bloomGh' = [bloomGh EXCEPT
                   !.res = [op |-> "might_contain", x |-> x,
                            r |-> scalable_might_contain(filters, x)]]
    /\ UNCHANGED bloomEnv

(***************************************************************************)
(* The level generator of skiptable::insert, draw by draw.                 *)
(***************************************************************************)
\* dist(*gen) gives a value of 0..MaxDraw
MaxDraw == 7

LevelOff == lvl = [level |-> 0, rn |-> 0, pc |-> "off", i |-> 0]
LevelStart == lvl = [level |-> 0, rn |-> 0, pc |-> "while", i |-> 0]

\* while (level < MAX_TABLE_LEVELS) { rn = dist(*gen); if (rn % 2) level += 1; else break; }
LevelDraw(rn) ==
    /\ lvl.pc = "while"
    /\ lvl.level < MAX_TABLE_LEVELS
    /\ lvl' = [lvl EXCEPT !.rn = rn,
                          !.level = IF rn % 2 = 1 THEN @ + 1 ELSE @,
                          !.pc = IF rn % 2 = 1 THEN "while" ELSE "chosen"]

\* the loop condition ends the loop
LevelFull ==
    /\ lvl.pc = "while"
    /\ ~(lvl.level < MAX_TABLE_LEVELS)
    /\ lvl' = [lvl EXCEPT !.pc = "chosen"]

\* for (int32_t i = level; ...) n->iterate(i): the first index into the
\* arrays of MAX_TABLE_LEVELS elements
LevelIndex ==
    /\ lvl.pc = "chosen"
    /\ lvl' = [lvl EXCEPT !.pc = "search", !.i = lvl.level]

(***************************************************************************)
(* kvstore::save_memtable with the accesses of the plain pointer mtable    *)
(* taken one at a time.  Nothing orders two threads that swap it, so the   *)
(* load and the store of std::swap interleave freely.  Memtables are       *)
(* numbered in the order they are made; sw.hist lists the tables of the    *)
(* hist_nodes from the head on.                                            *)
(***************************************************************************)
\* memtables made by the constructor and by save_memtable
MaxMade == 4
\* the threads that call save_memtable: two put threads and the worker
SwapThreads == {"c1", "c2", "bg"}

SwIdle == [pc |-> "idle", new |-> 0, tmp |-> 0]

SwapOff ==
    sw = [mtable |-> 0, made |-> 0, filled |-> {}, sealed |-> {}, is_locked |-> {},
          hist |-> <<>>, t |-> [t \in SwapThreads |-> SwIdle]]

\* the constructor: one empty active memtable, no history
SwapStart ==
    sw = [mtable |-> 1, made |-> 1, filled |-> {}, sealed |-> {}, is_locked |-> {},
          hist |-> <<>>, t |-> [t \in SwapThreads |-> SwIdle]]

\* a put of a put thread whose insert into the active memtable succeeds; the
\* insert may bring the memtable to one of its limits
SwInsert(t, seals) ==
    /\ t # "bg"
    /\ sw.t[t].pc = "idle"
    /\ sw.mtable \notin sw.sealed \cup sw.is_locked
    /\ sw' = [sw EXCEPT !.filled = @ \cup {sw.mtable},
                        !.sealed = IF seals THEN @ \cup {sw.mtable} ELSE @]

\* save_memtable is called: by put after an insert that returned nullptr, by
\* the worker at the start of flush_memtables
SwCall(t) ==
    /\ sw.t[t].pc = "idle"
    /\ t # "bg" => sw.mtable \in sw.sealed \cup sw.is_locked
    /\ sw' = [sw EXCEPT !.t[t].pc = "empty"]

\* if (this->mtable->empty()) return
SwEmpty(t) ==
    /\ sw.t[t].pc = "empty"
    /\ sw' = [sw EXCEPT !.t[t].pc = IF sw.mtable \in sw.filled THEN "make" ELSE "idle"]

\* auto mt = std::make_unique<skiptable>(...)
SwMake(t) ==
    /\ sw.t[t].pc = "make"
    /\ sw.made < MaxMade
    /\ sw' = [sw EXCEPT !.made = @ + 1, !.t[t].pc = "swap_load", !.t[t].new = sw.made + 1]

\* std::swap(this->mtable, mt), first half: tmp = this->mtable
SwSwapLoad(t) ==
    /\ sw.t[t].pc = "swap_load"
    /\ sw' = [sw EXCEPT !.t[t].pc = "swap_store", !.t[t].tmp = sw.mtable]

\* std::swap(this->mtable, mt), second half: this->mtable = mt; mt = tmp
SwSwapStore(t) ==
    /\ sw.t[t].pc = "swap_store"
    /\ sw' = [sw EXCEPT !.mtable = sw.t[t].new, !.t[t].pc = "lock"]

\* mt->lock()
SwLock(t) ==
    /\ sw.t[t].pc = "lock"
    /\ sw' = [sw EXCEPT !.is_locked = @ \cup {sw.t[t].tmp}, !.t[t].pc = "push"]

\* hn = new hist_node{mt}; the compare-exchange loop makes hn the head
SwPush(t) ==
    /\ sw.t[t].pc = "push"
    /\ sw' = [sw EXCEPT !.hist = <<sw.t[t].tmp>> \o @, !.t[t] = SwIdle]

(***************************************************************************)
(* Specifications.                                                         *)
(***************************************************************************)
WalNext ==
    \/ \E key \in Keys, value \in Values : RtLog(key, value)
    \/ RtLoad

WalInit == ndebug \in BOOLEAN /\ RtInit /\ MemOff /\ LogOff /\ StoreOff /\ SstOff /\ BloomOff /\ LevelOff /\ SwapOff

SpecWal == WalInit /\ [][WalNext]_vars

MemNext ==
    \E t \in MemThreads :
        \/ \E key \in MemKeys, data \in MemValues : InsCall(t, key, data)
        \/ InsLocked(t)
        \/ InsReserve(t)
        \/ \E odds \in 0..MaxOdds : InsTotal(t, odds)
        \/ InsIter(t)
        \/ InsNewer(t)
        \/ InsOlder(t)
        \/ InsUpdate(t)
        \/ InsSub(t)
        \/ InsAdd(t)
        \/ InsLink(t)
        \/ InsCas(t)
        \/ InsFin(t)

MemInit == ndebug \in BOOLEAN /\ RtOff /\ MemOff /\ LogOff /\ StoreOff /\ SstOff /\ BloomOff /\ LevelOff /\ SwapOff

SpecMem == MemInit /\ [][MemNext]_vars

LogNext ==
    \E t \in LogThreads :
        \/ LogCall(t)
        \/ LogLockShared(t)
        \/ LogLoad(t)
        \/ LogCas(t)
        \/ LogStore(t)
        \/ LogUnlockShared(t)
        \/ LogTryLock(t)
        \/ LogDrain(t)
        \/ LogUnlock(t)

LogInit == ndebug = TRUE /\ RtOff /\ MemOff /\ LogOff /\ StoreOff /\ SstOff /\ BloomOff /\ LevelOff /\ SwapOff

SpecLog == LogInit /\ [][LogNext]_vars

\* the steps of put, get and save_memtable
PutStep(cs) ==
    \/ \E t \in cs : PutLocked(t)
    \/ \E t \in cs : PutBody(t)
    \/ \E t \in cs : PutLog(t)

SaveStep ==
    \/ \E t \in StoreThreads : SmEmpty(t)
    \/ \E t \in StoreThreads : SmSwap(t)
    \/ \E t \in StoreThreads : SmLock(t)
    \/ \E t \in StoreThreads : SmLoad(t)
    \/ \E t \in StoreThreads : SmCas(t)

GetStep(cs) ==
    \/ \E t \in cs : GetMt(t)
    \/ \E t \in cs : GetHist(t)
    \/ \E t \in cs : GetWalk(t)
    \/ \E t \in cs : GetSst(t)

\* the steps of the background worker and of flush_memtables
FlushStep ==
    \/ BgLoop
    \/ BgWake
    \/ \E t \in StoreThreads : FlWal(t)
    \/ \E t \in StoreThreads : FlTake(t)
    \/ \E t \in StoreThreads : FlBuild(t)
    \/ \E t \in StoreThreads : FlDel(t)

\* shutdown, crash and construction on the directories left behind
LifeStep ==
    \/ Dtor
    \/ DtorJoin
    \/ DtorEnd
    \/ Crash
    \/ Ctor
    \/ \E f \in disk.walExists : CtorWal(f)
    \/ \E sst \in disk.sstDisk : CtorSst(sst)
    \/ CtorStart

OtherVars == <<ndebug, rtVars, memVars, logVars, fileVars>>

\* an SSTable is built from a sealed memtable and then read
SstNext ==
    /\ \/ SstBuild
       \/ \E key \in SstGetKeys : SstGet(key)
    /\ UNCHANGED <<rtVars, memVars, logVars, stVars, ndebug>>

SstInit == ndebug \in BOOLEAN /\ RtOff /\ MemOff /\ LogOff /\ StoreOff /\ SstStart /\ BloomOff /\ LevelOff /\ SwapOff

SpecSst == SstInit /\ [][SstNext]_vars

\* one run of the level generator
LevelNext ==
    /\ \/ \E rn \in 0..MaxDraw : LevelDraw(rn)
       \/ LevelFull
       \/ LevelIndex
    /\ UNCHANGED <<ndebug, rtVars, memVars, logVars, stVars, sstIn, sstOut, sstRes,
                   bloomEnv, filters, bloomGh, sw>>

LevelInit ==
    ndebug = TRUE /\ RtOff /\ MemOff /\ LogOff /\ StoreOff /\ SstOff /\ BloomOff /\ LevelStart /\ SwapOff

SpecLevel == LevelInit /\ [][LevelNext]_vars

\* calls on one Bloom filter
BloomNext ==
    /\ \E x \in BloomElems :
           \/ StaticInsert(x)
           \/ StaticMightContain(x)
           \/ ScalableInsert(x)
           \/ ScalableMightContain(x)
    /\ UNCHANGED <<ndebug, rtVars, memVars, logVars, stVars, sstIn, sstOut, sstRes, lvl, sw>>

BloomInit ==
    ndebug = TRUE /\ RtOff /\ MemOff /\ LogOff /\ StoreOff /\ SstOff /\ BloomStart /\ LevelOff /\ SwapOff

SpecBloom == BloomInit /\ [][BloomNext]_vars

\* one process lifetime: one caller thread and the background worker
Next ==
    /\ \/ \E key \in OneKey, data \in StoreValues : Put(Owner, key, data)
       \/ PutStep({Owner})
       \/ SaveStep
       \/ \E key \in OneKey : Get(Owner, key)
       \/ GetStep({Owner})
       \/ FlushStep
    /\ UNCHANGED OtherVars

Init ==
    /\ ndebug = TRUE /\ RtOff /\ MemOff /\ LogOff /\ SstOff /\ BloomOff /\ LevelOff /\ SwapOff
    /\ StoreInit([puts |-> MaxPuts, gets |-> MaxGets, calls |-> MaxCalls, restarts |-> 0])

Spec == Init /\ [][Next]_vars

\* one caller thread and the background worker, with shutdown, crash and restart
LifeNext ==
    /\ \/ \E key \in StoreKeys, data \in StoreValues : Put(Owner, key, data)
       \/ PutStep({Owner})
       \/ SaveStep
       \/ \E key \in StoreKeys : Get(Owner, key)
       \/ GetStep({Owner})
       \/ FlushStep
       \/ LifeStep
    /\ UNCHANGED OtherVars

LifeInit ==
    /\ ndebug = TRUE /\ RtOff /\ MemOff /\ LogOff /\ SstOff /\ BloomOff /\ LevelOff /\ SwapOff
    /\ StoreInit([puts |-> LifePuts, gets |-> LifeGets, calls |-> LifePuts + LifeGets,
                  restarts |-> MaxRestarts])

SpecLife == LifeInit /\ [][LifeNext]_vars

\* the steps of the background thread: its sleep ends, and the scheduler runs it
BgRun ==
    /\ \/ BgLoop
       \/ BgWake
       \/ SmEmpty("bg") \/ SmSwap("bg") \/ SmLock("bg") \/ SmLoad("bg") \/ SmCas("bg")
       \/ FlWal("bg") \/ FlTake("bg") \/ FlBuild("bg") \/ FlDel("bg")
    /\ UNCHANGED OtherVars

\* the same behaviours with a background thread that is not starved
SpecLifeFair == LifeInit /\ [][LifeNext]_vars /\ WF_vars(BgRun)

\* a key that no put has been called with
Fresh(key) == gh.putLog[key] = <<>> /\ \A c \in Callers : th[c].key # key

\* two caller threads that put pairwise distinct keys, and the background worker
MTNext ==
    /\ \/ \E t \in Callers, key \in MTKeys, data \in MTValues :
             Fresh(key) /\ Put(t, key, data)
       \/ PutStep(Callers)
       \/ SaveStep
       \/ FlushStep
    /\ UNCHANGED OtherVars

MTInit ==
    /\ ndebug = TRUE /\ RtOff /\ MemOff /\ LogOff /\ SstOff /\ BloomOff /\ LevelOff /\ SwapOff
    /\ StoreInit([puts |-> MTPuts, gets |-> 0, calls |-> MTPuts, restarts |-> 0])

SpecMT == MTInit /\ [][MTNext]_vars

\* one process lifetime with two keys: one caller thread and the background worker
TwoNext ==
    /\ \/ \E key \in StoreKeys, data \in StoreValues : Put(Owner, key, data)
       \/ PutStep({Owner})
       \/ SaveStep
       \/ \E key \in StoreKeys : Get(Owner, key)
       \/ GetStep({Owner})
       \/ FlushStep
    /\ UNCHANGED OtherVars

TwoInit ==
    /\ ndebug = TRUE /\ RtOff /\ MemOff /\ LogOff /\ SstOff /\ BloomOff /\ LevelOff /\ SwapOff
    /\ StoreInit([puts |-> TwoPuts, gets |-> TwoGets, calls |-> TwoPuts + TwoGets,
                  restarts |-> 0])

SpecTwo == TwoInit /\ [][TwoNext]_vars

\* two caller threads that put the same key, and the background worker
SameNext ==
    /\ \/ \E t \in Callers, data \in StoreValues : Put(t, <<"a">>, data)
       \/ PutStep(Callers)
       \/ SaveStep
       \/ FlushStep
    /\ UNCHANGED OtherVars

SameInit ==
    /\ ndebug = TRUE /\ RtOff /\ MemOff /\ LogOff /\ SstOff /\ BloomOff /\ LevelOff /\ SwapOff
    /\ StoreInit([puts |-> SamePuts, gets |-> 0, calls |-> SamePuts, restarts |-> 0])

SpecSame == SameInit /\ [][SameNext]_vars

\* the WAL files a process can leave behind when it is killed before the
\* first flush: the records of up to MaxRecoverRecs puts, in the order logged
RecoverRecs ==
    UNION {[1..n -> {<<k, v>> : k \in StoreKeys, v \in StoreValues}] : n \in 1..MaxRecoverRecs}

\* the values logged for a key, in order
RECURSIVE valuesOf(_, _)
valuesOf(recs, k) ==
    IF recs = <<>> THEN <<>>
    ELSE IF Head(recs)[1] = k THEN <<Head(recs)[2]>> \o valuesOf(Tail(recs), k)
    ELSE valuesOf(Tail(recs), k)

\* construction on the directory of a killed process, then gets, a shutdown
RecoverNext ==
    /\ \/ LifeStep
       \/ \E key \in StoreKeys : Get(Owner, key)
       \/ GetStep({Owner})
       \/ SaveStep
       \/ FlushStep
    /\ UNCHANGED OtherVars

RecoverInit ==
    /\ ndebug = TRUE /\ RtOff /\ MemOff /\ LogOff /\ SstOff /\ BloomOff /\ LevelOff /\ SwapOff
    /\ store = NoStore("crashed")
    /\ th = ThOff
    /\ \E recs \in RecoverRecs :
           /\ disk = [walRecs |-> <<recs>>, walExists |-> {1}, sstDisk |-> {}, clock |-> 0]
           /\ gh = [NoCalls([puts |-> 0, gets |-> 1, calls |-> 1, restarts |-> 1])
                        EXCEPT !.putLog = [k \in AllKeys |-> valuesOf(recs, k)]]

SpecRecover == RecoverInit /\ [][RecoverNext]_vars

\* the values of the behaviours that fill the record array of one memtable
SlotValues == {<<>>, <<"a", "b">>}

\* two caller threads whose puts use up the records of a memtable, within
\* one sleep of the background worker
SlotNext ==
    /\ \/ \E t \in Callers, data \in SlotValues : Put(t, <<"a">>, data)
       \/ PutStep(Callers)
       \/ SaveStep
    /\ UNCHANGED OtherVars

SlotInit ==
    /\ ndebug = TRUE /\ RtOff /\ MemOff /\ LogOff /\ SstOff /\ BloomOff /\ LevelOff /\ SwapOff
    /\ StoreInit([puts |-> SlotPuts, gets |-> 0, calls |-> SlotPuts, restarts |-> 0])

SpecSlot == SlotInit /\ [][SlotNext]_vars

\* concurrent calls of save_memtable between two flushes
SwapNext ==
    /\ \E t \in SwapThreads :
           \/ \E seals \in BOOLEAN : SwInsert(t, seals)
           \/ SwCall(t)
           \/ SwEmpty(t)
           \/ SwMake(t)
           \/ SwSwapLoad(t)
           \/ SwSwapStore(t)
           \/ SwLock(t)
           \/ SwPush(t)
    /\ UNCHANGED <<ndebug, rtVars, memVars, logVars, stVars, sstIn, sstOut, sstRes,
                   bloomEnv, filters, bloomGh, lvl>>

SwapInit ==
    ndebug = TRUE /\ RtOff /\ MemOff /\ LogOff /\ StoreOff /\ SstOff /\ BloomOff /\ LevelOff
        /\ SwapStart

SpecSwap == SwapInit /\ [][SwapNext]_vars

(***************************************************************************)
(* Claims.                                                                 *)
(***************************************************************************)
\* the last value logged for a key, or "none"
RECURSIVE lastLogged(_, _)
lastLogged(logged, key) ==
    IF logged = <<>> THEN "none"
    ELSE IF Last(logged)[1] = key THEN Last(logged)[2]
    ELSE lastLogged(Front(logged), key)

\* C5: after walfile::load of a file written by walfile::log, the memtable
\* maps every logged key to exactly the bytes of its last logged value.
C5_WalRoundTrip ==
    rtPc = "loaded" =>
        \A i \in 1..Len(rtLogged) :
            LET key == rtLogged[i][1]
                rec == tableGet(rtTable, key)
            IN  rec.ok /\ rec.data = lastLogged(rtLogged, key)

MemQuiescent == \A t \in MemThreads : ins[t].pc = "idle"

\* the record indices reserved by the returned inserts of a key
reservedFor(key) == {x[3] : x \in {y \in returned : y[2] = key /\ y[3] >= 0}}

MaxOf(S) == CHOOSE x \in S : \A y \in S : y <= x

\* C8: after all inserts of one key into a memtable have returned, the node of
\* the key carries the largest record index reserved by any of them, and get
\* returns the record of that slot.
C8_LargestIndexWins ==
    MemQuiescent =>
        \A key \in MemKeys :
            reservedFor(key) # {} =>
                /\ memFind(key) # NullNode
                /\ record_idx[memFind(key)] = MaxOf(reservedFor(key))
                /\ memGet(key).ok
                /\ memGet(key).data = records[MaxOf(reservedFor(key))].data

\* the store is running and no call and no flush is in progress
Quiescent ==
    /\ Running
    /\ \A c \in Callers : th[c].pc = "idle"
    /\ th["bg"].pc \in {"bg_loop", "bg_sleep", "bg_done"}

\* the keys some put has returned for
PutKeys == {k \in AllKeys : gh.putLog[k] # <<>>}

\* C1: with one caller and the background worker, once the puts have returned
\* and the rotations and flushes they caused are over, get of every key that was
\* put reports found with the bytes of the most recent put of that key.
C1_GetReturnsLatest ==
    \A key \in PutKeys :
        Quiescent =>
            LET r == get(store, key) IN
            ~r.ub /\ r.found /\ r.data = Last(gh.putLog[key])

\* a container that get searches holds the value for the key
heldBy(s, key, data) ==
    \/ \E id \in {s.mtable} \cup histTables(s.histNext, s.hist) :
          /\ tableGet(s.tables[id], key).ok
          /\ tableGet(s.tables[id], key).data = data
    \/ \E i \in 1..Len(s.sstq) :
          /\ key \in DOMAIN s.sstq[i].data
          /\ s.sstq[i].data[key] = data

\* C2: at every point of a rotation or a flush, the most recent value of every
\* key whose put has returned is in the active memtable, in a memtable reachable
\* from the history head or in a registered SSTable (or has just been replaced
\* there by the value of a put that has not returned yet).
C2_LatestValueHeld ==
    Running =>
        \A key \in PutKeys :
            \/ heldBy(store, key, Last(gh.putLog[key]))
            \/ \E c \in Callers : /\ th[c].pc = "put_log"
                                   /\ th[c].key = key
                                   /\ heldBy(store, key, th[c].data)

\* C3: monotonic reads within one process lifetime: a get that returns a value
\* does not return one whose every put came before the put of a value that an
\* earlier get of the same key returned.
C3_MonotonicReads ==
    (gh.res.done /\ gh.res.found) =>
        lastPos(gh.putLog[gh.res.key], gh.res.data) >= gh.res.floor

\* C4: when the log call of a put returns, the record of that put has been
\* appended to the WAL file: no returned call has its node only in the ring.
C4_LoggedBeforeReturn == \A node \in logReturned : onDisk(node)

\* C6: in every state, crashed and recovering ones included, the value of the
\* last acknowledged put of every key is in an SSTable file or in a record of a
\* WAL file that exists.
C6_AckedIsDurable ==
    \A key \in PutKeys :
        \/ \E sst \in disk.sstDisk :
              /\ key \in DOMAIN sst.data
              /\ sst.data[key] = Last(gh.putLog[key])
        \/ \E f \in disk.walExists : \E i \in 1..Len(disk.walRecs[f]) :
              disk.walRecs[f][i] = <<key, Last(gh.putLog[key])>>

\* C7: after puts of pairwise distinct keys by two threads have all returned and
\* nothing is in progress, get finds every one of the keys with its value.
C7_NoPutLost ==
    Quiescent =>
        \A key \in PutKeys :
            /\ get(store, key).found
            /\ get(store, key).data = Last(gh.putLog[key])

\* C9: after a clean shutdown and a construction on the same directories, with
\* no put since, get finds every key that was put with its last value.
C9_ReopenKeepsAll ==
    (Quiescent /\ gh.clean /\ gh.restarts > 0) =>
        \A key \in PutKeys :
            /\ ~get(store, key).ub
            /\ get(store, key).found
            /\ get(store, key).data = Last(gh.putLog[key])

\* C10: when save_memtable has returned to a put whose insert failed on a sealed
\* memtable, the active memtable is not sealed, so the retried insert succeeds.
C10_RetryFindsUnsealed ==
    \A c \in Callers :
        (Running /\ th[c].pc = "put_locked" /\ th[c].after = "put") =>
            ~locked(store.tables[store.mtable])

\* C11: in one process lifetime, once nothing is in progress, get of a key whose
\* last put had a zero-length value reports found with a value of length zero,
\* also after its memtable was sealed and after a flush.
C11_ZeroLengthRetrievable ==
    \A key \in PutKeys :
        (Quiescent /\ gh.restarts = 0 /\ Last(gh.putLog[key]) = <<>>) =>
            LET r == get(store, key) IN
            ~r.ub /\ r.found /\ Len(r.data) = 0

\* a thread is inside flush_memtables (its save_memtable included)
inFlush(t) ==
    \/ th[t].pc \in {"fl_wal", "fl_take", "fl_build", "fl_del"}
    \/ th[t].pc \in {"sm_empty", "sm_swap", "sm_lock", "sm_load", "sm_cas"}
          /\ th[t].after = "flush"

\* C12: once the destructor has set exit the background worker terminates (or
\* the process is killed first), and the destructor is inside its final
\* flush_memtables only when the worker has terminated, so two executions of
\* flush_memtables never overlap.
C12_CooperativeShutdown ==
    /\ [](inFlush(Owner) => (th["bg"].pc = "bg_done" /\ ~inFlush("bg")))
    /\ ((Running /\ store.exit) ~> (th["bg"].pc = "bg_done" \/ ~Running))

\* the destructor is in its final flush and the worker has terminated
C12_Witness == Running /\ store.exit /\ inFlush(Owner) /\ th["bg"].pc = "bg_done"

\* the keys of the memtable the file was built from
storedKeys == DOMAIN sstIn.table.node
\* the bytes of the value the memtable holds for a stored key
storedValue(k) == bytesOf(sstIn.table.records[sstIn.table.node[k] + 1].data)

\* C13: for a file built from a sealed memtable, sstable::get of each key of
\* the memtable returns true with exactly that key's value, also when one
\* stored key is a proper prefix of another and when there are several blocks.
C13_SstRoundTrip ==
    (sstRes.done /\ sstRes.key \in storedKeys) =>
        /\ ~sstRes.outside
        /\ sstRes.status = "found"
        /\ sstRes.data = storedValue(sstRes.key)

\* C14: sstable::get of a key that is not stored in the file returns false and
\* reads only inside the mapping of the file.
C14_AbsentKeyNotFound ==
    (sstRes.done /\ sstRes.key \notin storedKeys) =>
        /\ ~sstRes.outside
        /\ sstRes.status = "miss"

\* C15: in a file written by sstable::build the first entry of every block has
\* prefix_bytes = 0, also in a block started because the previous one could not
\* hold that entry.
C15_BlockStartsWithIndexKey ==
    sstOut.built =>
        \A i \in 1..Len(sstOut.starts) : rd(sstOut.file, sstOut.starts[i], 4) = 0

\* C16: the size of a file written by sstable::build from a non-empty memtable
\* is block_count * block_size + 48.
C16_FileSize ==
    (sstOut.built /\ storedKeys # {}) =>
        Len(sstOut.file) = sstOut.blocks * sstIn.max_block_size + 48

\* C17: every insert call on a static_filter or a scalable_filter returns, and
\* might_contain then returns true for every element that was inserted, also
\* after the scalable filter has appended sub-filters.
C17_NoFalseNegatives ==
    /\ ~bloomGh.fault
    /\ (bloomGh.res.op = "might_contain" /\ bloomGh.res.x \in bloomGh.inserted) =>
           bloomGh.res.r

\* from the node n on, the level-0 links visit strictly ascending keys and end
\* within fuel nodes
RECURSIVE ascendingFrom(_, _)
ascendingFrom(n, fuel) ==
    LET n2 == next[n][0] IN
    \/ n2 = NullNode
    \/ /\ fuel > 0
       /\ n = HeadNode \/ compare(nodeKey[n], nodeKey[n2]) < 0
       /\ ascendingFrom(n2, fuel - 1)

C19_RecordIdxMonotonic ==
    [][\A n \in Slots : record_idx'[n] >= record_idx[n]]_vars

\* C20: the branch of skiptable::insert for an equal key whose record index is
\* neither newer nor older than the writer's own (assert(false)) is never
\* taken: every step that leaves the older test goes on to the update.
C20_AssertUnreachable ==
    [][\A t \in MemThreads :
          (ins[t].pc = "older" /\ ins'[t].pc # "older") => ins'[t].pc = "update"]_vars

\* C21: the level chosen for a new node is at most MAX_TABLE_LEVELS - 1 for
\* every sequence of draws, and the arrays of MAX_TABLE_LEVELS elements are
\* never indexed at MAX_TABLE_LEVELS or above.
C21_LevelInRange ==
    /\ lvl.pc \in {"chosen", "search"} => lvl.level <= MAX_TABLE_LEVELS - 1
    /\ lvl.pc = "search" => lvl.i < MAX_TABLE_LEVELS

\* C22: once locked() is true for a memtable it stays true, also while inserts
\* that started earlier complete, and an insert that tests locked() while it
\* is true returns failure and changes nothing.
C22_SealedStaysSealed ==
    [][/\ memLocked => memLocked'
       /\ \A t \in MemThreads :
              (memLocked /\ ins[t].pc = "locked" /\ ins'[t] # ins[t]) =>
                  /\ ins'[t] = InsIdle
                  /\ UNCHANGED <<next, nodeKey, record_idx, records, next_record,
                                 data_size, total_data_size>>]_vars

\* from the hist_node n on, every entry was the active memtable later than the
\* entry behind it (memtables are numbered in the order they became active)
RECURSIVE newestFirst(_, _)
newestFirst(histNext, n) ==
    \/ n = 0
    \/ histNext[n] = 0
    \/ histNext[n] < n /\ newestFirst(histNext, histNext[n])

\* C23: of any two entries of the history stack, the one nearer the head was
\* the active memtable later than the other, also when several threads call
\* save_memtable concurrently.
C23_HistoryNewestFirst == Running => newestFirst(store.histNext, store.hist)

\* C24: the loop of get visits the registered SSTable handles in strictly
\* descending timestamp order, whatever their number and the order in which
\* they were added.
C24_SstNewestFirst ==
    Running =>
        \A i, j \in 1..Len(store.sstq) : i < j => store.sstq[i].t > store.sstq[j].t

\* the value v1 of key k was put later than the value v2 (or they are the
\* same bytes), by the order of the put calls
putLater(k, v1, v2) ==
    \/ v1 = v2
    \/ \E i, j \in 1..Len(gh.putLog[k]) :
           i > j /\ gh.putLog[k][i] = v1 /\ gh.putLog[k][j] = v2

\* C25: of any two registered SSTables that hold the same key, the one with
\* the greater timestamp holds the value that was put later, also for the
\* SSTables one flush_memtables call builds from several history entries
\* (read when no put is in progress, so that every stored value has been put).
C25_TimestampOrderIsPutOrder ==
    (Running /\ \A c \in Callers : th[c].pc = "idle") =>
        \A i, j \in 1..Len(store.sstq) :
            \A k \in DOMAIN store.sstq[i].data \cap DOMAIN store.sstq[j].data :
                store.sstq[i].t > store.sstq[j].t =>
                    putLater(k, store.sstq[i].data[k], store.sstq[j].data[k])

\* the memtables a behaviour can create
MemtableIds == 1..(LifePuts + 2)

\* the memtable m is a sealed memtable of the history stack
inHistory(m) == Running /\ m \in histTables(store.histNext, store.hist)

\* the memtable m has left the history and a registered SSTable holds its data
flushed(m) ==
    /\ Running
    /\ m \in DOMAIN store.tables
    /\ m \notin histTables(store.histNext, store.hist)
    /\ \E i \in 1..Len(store.sstq) : store.sstq[i].data = tableData(store.tables[m])

\* C26: while the store is running (no shutdown requested, process alive),
\* every memtable of a history stack that holds more than memtable_history
\* entries is eventually written to a registered SSTable and removed from the
\* history by the background worker, under fair scheduling of the worker.
C26_HistoryEventuallyFlushed ==
    \A m \in MemtableIds :
        (inHistory(m) /\ histCount(store.histNext, store.hist) > memtable_history)
            ~> (flushed(m) \/ ~Running \/ store.exit)

\* the background worker has flushed memtable 1 while the store keeps running
C26_Witness == flushed(1) /\ ~store.exit /\ th["bg"].pc = "bg_loop"

\* C27: every acquisition of the shared side of q_mutex in walfile::log is
\* matched by a release, also for a producer that had to retry: when no log
\* call is in progress nobody holds the shared side.
C27_SharedLockReleased ==
    (\A t \in LogThreads : lg[t].pc = "idle") => q_shared = 0

\* the number of times the node n is written in the WAL file
timesLogged(n) == Cardinality({i \in 1..Len(logfile) : logfile[i] = n})

\* C28: once every walfile::log call has returned, the ring buffer is empty
\* (read = write) and every node handed to log is in the WAL file exactly
\* once (the part of the claim about the order of the records is implied by
\* the drain loop reading the slots in index order and is not restated).
C28_AllLoggedOnce ==
    (\A t \in LogThreads : lg[t].pc = "idle") =>
        /\ read = write
        /\ \A n \in logReturned : timesLogged(n) = 1
        /\ Len(logfile) = Cardinality(logReturned)

\* C29: when no put is in progress, the last record the current WAL file holds
\* for a key carries the value that get returns for the key, also for puts to
\* the same key by concurrent threads with a memtable rotation in between.
C29_WalOrderIsApplyOrder ==
    (Running /\ \A c \in Callers : th[c].pc = "idle") =>
        \A k \in StoreKeys :
            lastLogged(disk.walRecs[store.wal], k) # "none" =>
                /\ get(store, k).found
                /\ get(store, k).data = lastLogged(disk.walRecs[store.wal], k)

\* C30: startup recovery loses no record: while the constructor loads a WAL
\* file, no record of the file is offered to a memtable that has sealed during
\* the load (such an insert returns nullptr and the record is in no memtable).
C30_RecoveryRefusesNoRecord ==
    store.proc = "starting" =>
        \A f \in disk.walExists :
            ~loadInsert(Reverse(loadPairs(walBytes(disk.walRecs[f]))), {},
                        store.tables[store.mtable], FALSE).assertLocked

\* C31: a get that is walking the history never stands on a hist_node (and
\* its memtable) that flush_memtables has deleted.
C31_NoFreedEntryReached ==
    Running =>
        \A c \in Callers :
            (th[c].pc = "get_walk" /\ th[c].n # 0) => th[c].n \notin store.freed

\* C32: the live-data counter data_size never wraps below zero and is at most
\* total_data_size, under any interleaving of a first insert of a key with
\* overwrites of the same key.
C32_DataSizeNeverWraps == 0 <= data_size /\ data_size <= total_data_size

\* C34: an insert that has passed its locked() test reserves a record index
\* below writes_before_lock, under any interleaving of concurrent inserts, so
\* next_record never exceeds writes_before_lock.
C34_RecordIndexInRange ==
    Running =>
        /\ \A c \in Callers :
               th[c].pc = "put_body" =>
                   store.tables[th[c].tbl].next_record < writes_before_lock
        /\ \A i \in 1..Len(store.tables) :
               store.tables[i].next_record <= writes_before_lock

\* a step of scalable_filter::insert that returns without dividing by zero
scalableInsertReturns ==
    /\ bloomEnv.which = "scalable"
    /\ ~bloomGh.fault /\ ~bloomGh'.fault
    /\ ~divides_by_zero(filters[1])
    /\ bloomGh'.res.op = "insert"
    /\ (bloomGh' # bloomGh \/ filters' # filters)

\* C33: scalable_filter::insert of an element that tests positive in some
\* sub-filter changes nothing; otherwise a sub-filter is appended exactly when
\* the newest one's element count has reached its capacity, its capacity is
\* the previous capacity times scaling_factor, the older sub-filters are left
\* alone and the element goes into the newest sub-filter.
C33_ScalableGrowth ==
    [][scalableInsertReturns =>
          LET x == bloomGh'.res.x
              old == filters
              new == filters'
              back == old[Len(old)]
              full == back.element_count >= back.capacity
          IN  IF \E j \in 1..Len(old) : might_contain(old[j], x)
              THEN new = old
              ELSE /\ Len(new) = Len(old) + (IF full THEN 1 ELSE 0)
                   /\ \A j \in 1..Len(old) : j < Len(new) => new[j] = old[j]
                   /\ full => new[Len(new)].capacity = back.capacity * scaling_factor
                   /\ new[Len(new)].element_count =
                          (IF full THEN 0 ELSE back.element_count) + 1
                   /\ might_contain(new[Len(new)], x)]_vars

\* an insert has appended a second sub-filter of twice the capacity and put
\* its element there
C33_Witness ==
    /\ bloomEnv.which = "scalable" /\ ~bloomGh.fault
    /\ bloomGh.res.op = "insert" /\ ~bloomGh.res.r
    /\ Len(filters) = 2
    /\ filters[1].element_count = filters[1].capacity
    /\ filters[2].capacity = filters[1].capacity * scaling_factor
    /\ filters[2].element_count = 1

\* the number of hist_nodes that hold the memtable m
timesPushed(m) == Cardinality({i \in 1..Len(sw.hist) : sw.hist[i] = m})

\* C35: under concurrent save_memtable calls no memtable is pushed onto the
\* history twice, and when no call is in progress every memtable that holds
\* records is either the active one or has been pushed exactly once.
C35_PushedExactlyOnce ==
    /\ \A m \in 1..sw.made : timesPushed(m) <= 1
    /\ (\A t \in SwapThreads : sw.t[t].pc = "idle") =>
           \A m \in sw.filled : m = sw.mtable \/ timesPushed(m) = 1

\* the slots of [read, write), in ring order
undrained ==
    {i \in 0..(concurrent_put_limit - 1) :
        (i + concurrent_put_limit - read) % concurrent_put_limit
            < (write + concurrent_put_limit - read) % concurrent_put_limit}

\* the threads inside the drain loop
drainers == {t \in LogThreads : lg[t].pc = "drain"}

\* C36: at most one thread drains at a time; while one drains no producer is
\* between its CAS on write and its slot store and every slot of
\* [read, write) holds a node; a producer stores only into a slot that holds
\* no undrained node.
C36_DrainSafety ==
    /\ Cardinality(drainers) <= 1
    /\ drainers # {} =>
           /\ q_excl
           /\ \A t \in LogThreads : lg[t].pc # "store"
           /\ \A i \in undrained : putq[i] # NoNode
    /\ \A t \in LogThreads : lg[t].pc = "store" => putq[lg[t].w] = NoNode

\* a thread is draining a ring buffer that holds two undrained nodes
C36_Witness ==
    /\ drainers # {}
    /\ Cardinality(undrained) = concurrent_put_limit - 1
    /\ \A i \in undrained : putq[i] # NoNode

====
